---- MODULE Spec2Model ----
(***************************************************************************)
(* Appointment scheduling core of ACTLAB: the conflict detector            *)
(* (validarCruceCitas) and the appointment handlers of                     *)
(* BACKEND/controllers/cita.controller.js over the Cita collection of      *)
(* BACKEND/models/Cita.js.                                                 *)
(*                                                                         *)
(* Time is in milliseconds since a local midnight (JavaScript Date         *)
(* values, naive local time).  The collection is a sequence in insertion   *)
(* order, which is the order Cita.find returns documents in.               *)
(***************************************************************************)
EXTENDS Integers, Sequences, FiniteSets, TLC

VARIABLES
    citas,      \* the Cita collection: sequence of documents, insertion order
    nextId,     \* the next _id the store assigns (ids are never reused)
    reloj,      \* the wall clock read by new Date()
    last,       \* the last request handled and the response sent for it
    procs,      \* per in-flight request: position between its awaits
    citasData,      \* admin page: the appointments last loaded
    citasFiltradas, \* admin page: the appointments the table pages through
    currentPage     \* admin page: the page of the table shown

vars == <<citas, nextId, reloj, last, procs, citasData, citasFiltradas, currentPage>>

\* the state of the admin appointments page
pagina == <<citasData, citasFiltradas, currentPage>>

\* the state of the backend
servidor == <<citas, nextId, reloj, last, procs>>

-----------------------------------------------------------------------------
(* Program constants *)

MsPorMinuto == 60000
MsPorDia == 86400000
DuracionDefecto == 15
DuracionMin == 5
DuracionMax == 120

(* Bounds of the model *)
MaxCitas == 2
MaxReloj == 1
\* appointments created in the runs that follow the fields of one appointment
MaxFichas == 1

-----------------------------------------------------------------------------
(* JavaScript values *)

UNDEFINED == "undefined"
NULL == "null"
\* an absent / null Date (timestamps are >= 0)
SinFecha == -1
\* the result of parseInt on a text that does not start with a number
NaN == -999999

\* a request-body value for duracion: undefined, a number n + d/10, or a
\* text that is not numeric
DurUndefined == [kind |-> "undefined", n |-> 0, d |-> 0]
DurTexto == [kind |-> "string", n |-> 0, d |-> 0]
DurNum(n) == [kind |-> "number", n |-> n, d |-> 0]
DurDec(n, d) == [kind |-> "number", n |-> n, d |-> d]

\* parseInt(x, 10): the integer part of a number, NaN for anything else
parseInt(raw) == IF raw.kind = "number" THEN raw.n ELSE NaN

isNaN(x) == x = NaN

\* JavaScript truthiness of a string-valued body field
Truthy(s) == s # UNDEFINED /\ s # NULL /\ s # ""

\* a clock time of day h:m on day d, in milliseconds
Hora(d, h, m) == d * MsPorDia + (h * 60 + m) * MsPorMinuto

-----------------------------------------------------------------------------
(* The Cita schema *)

Estados == {"Pendiente", "Confirmada", "Reprogramada", "Cancelada", "Atendida"}
TiposExamen == {"Consulta General", "Laboratorio", "Imagenologia", "Especialidad"}
CanceladoPorEnum == {"Paciente", "Admin", "Sistema"}

\* the patients of the Paciente collection
Pacientes == {"p1"}

\* mutant: the document built from the whole request body
nuevaCitaDelCuerpo(id, req, fechaHoraObj, duracionNum) ==
    [id |-> id,
     pacienteId |-> req.pacienteId,
     medicoId |-> NULL,
     fechaHora |-> fechaHoraObj,
     duracion |-> duracionNum,
     motivo |-> req.motivo,
     tipoExamen |-> req.tipoExamen,
     estado |-> IF Truthy(req.estado) THEN req.estado ELSE "Pendiente",
     canceladoPor |-> IF Truthy(req.canceladoPor) THEN req.canceladoPor ELSE NULL,
     motivoCancelacion |-> IF Truthy(req.motivoCancelacion)
                           THEN req.motivoCancelacion ELSE NULL,
     notasMedico |-> IF Truthy(req.notasMedico) THEN req.notasMedico ELSE NULL,
     fechaAtendida |-> SinFecha]

\* new Cita({...}) as createCita builds it, schema defaults applied
nuevaCita(id, req, fechaHoraObj, duracionNum) ==
    [id |-> id,
     pacienteId |-> req.pacienteId,
     medicoId |-> NULL,
     fechaHora |-> fechaHoraObj,
     duracion |-> duracionNum,
     motivo |-> req.motivo,
     tipoExamen |-> req.tipoExamen,
     estado |-> "Pendiente",
     canceladoPor |-> NULL,
     motivoCancelacion |-> NULL,
     notasMedico |-> NULL,
     fechaAtendida |-> SinFecha]

\* the validators document.save() runs: required fields, and the enum and
\* min/max validators of the paths that were modified since `antes`
\* (for a new document every path counts as modified)
validaGuardado(nuevo, antes, doc) ==
    /\ Truthy(doc.pacienteId)
    /\ doc.fechaHora # SinFecha
    /\ Truthy(doc.motivo)
    /\ doc.tipoExamen # UNDEFINED /\ doc.tipoExamen # NULL
    /\ doc.estado # UNDEFINED /\ doc.estado # NULL
    /\ (nuevo \/ doc.tipoExamen # antes.tipoExamen) => doc.tipoExamen \in TiposExamen
    /\ (nuevo \/ doc.estado # antes.estado) => doc.estado \in Estados
    /\ (nuevo \/ doc.duracion # antes.duracion) =>
          (doc.duracion >= DuracionMin /\ doc.duracion <= DuracionMax)
    /\ (nuevo \/ doc.canceladoPor # antes.canceladoPor) =>
          (doc.canceladoPor = NULL \/ doc.canceladoPor \in CanceladoPorEnum)

-----------------------------------------------------------------------------
(* Store access *)

\* Cita.findById(id): <<doc>> or <<>> (null)
findById(col, id) ==
    LET hits == SelectSeq(col, LAMBDA c : c.id = id)
    IN  IF hits = <<>> THEN <<>> ELSE <<hits[1]>>

\* the position of document id in the collection
posDe(col, id) == CHOOSE i \in 1..Len(col) : col[i].id = id

\* write doc over the stored document with the same _id; a document that
\* was removed meanwhile is not written back
guardar(col, doc) ==
    [i \in 1..Len(col) |-> IF col[i].id = doc.id THEN doc ELSE col[i]]

\* remove document id
quitar(col, id) == SelectSeq(col, LAMBDA c : c.id # id)

-----------------------------------------------------------------------------
(* Conflict detector *)

\* setHours(0, 0, 0, 0)
inicioDia(t) == t - (t % MsPorDia)
\* setHours(23, 59, 59, 999)
finDia(t) == inicioDia(t) + MsPorDia - 1

\* mutant: the end of a stored appointment without the 15-minute fallback
citaFinSinDefecto(cita) == cita.fechaHora + cita.duracion * MsPorMinuto

\* end of a stored appointment: fechaHora + (duracion || 15) minutes
citaFin(cita) ==
    cita.fechaHora
      + (IF cita.duracion # 0 THEN cita.duracion ELSE DuracionDefecto) * MsPorMinuto

\* mutant: the test without its third case (candidate contains existing)
haySolapamientoSinContener(fechaHoraInicio, fechaHoraFin, citaInicio, citaFinal) ==
    \/ (fechaHoraInicio >= citaInicio /\ fechaHoraInicio < citaFinal)
    \/ (fechaHoraFin > citaInicio /\ fechaHoraFin <= citaFinal)

\* mutant: the first case closed at the end of the existing appointment
haySolapamientoCerrado(fechaHoraInicio, fechaHoraFin, citaInicio, citaFinal) ==
    \/ (fechaHoraInicio >= citaInicio /\ fechaHoraInicio <= citaFinal)
    \/ (fechaHoraFin > citaInicio /\ fechaHoraFin <= citaFinal)
    \/ (fechaHoraInicio <= citaInicio /\ fechaHoraFin >= citaFinal)

\* the three-case overlap test of validarCruceCitas
haySolapamiento(fechaHoraInicio, fechaHoraFin, citaInicio, citaFinal) ==
    \/ (fechaHoraInicio >= citaInicio /\ fechaHoraInicio < citaFinal)
    \/ (fechaHoraFin > citaInicio /\ fechaHoraFin <= citaFinal)
    \/ (fechaHoraInicio <= citaInicio /\ fechaHoraFin >= citaFinal)

\* mutant: the filter without the status condition
filtroSinEstado(cita, fechaHoraInicio, excludeId) ==
    /\ cita.fechaHora >= inicioDia(fechaHoraInicio)
    /\ cita.fechaHora <= finDia(fechaHoraInicio)
    /\ (excludeId # 0 => cita.id # excludeId)

\* mutant: the filter without the excludeId condition
filtroSinExcluir(cita, fechaHoraInicio, excludeId) ==
    /\ cita.fechaHora >= inicioDia(fechaHoraInicio)
    /\ cita.fechaHora <= finDia(fechaHoraInicio)
    /\ cita.estado # "Cancelada"

\* the filter of the Cita.find of validarCruceCitas
filtroDelDia(cita, fechaHoraInicio, excludeId) ==
    /\ cita.fechaHora >= inicioDia(fechaHoraInicio)
    /\ cita.fechaHora <= finDia(fechaHoraInicio)
    /\ cita.estado # "Cancelada"
    /\ (excludeId # 0 => cita.id # excludeId)

\* validarCruceCitas: <<cita>> for the first overlapping appointment of the
\* day, <<>> for null.  excludeId = 0 is the default (null).
validarCruceCitas(col, fechaHoraInicio, duracion, excludeId) ==
    LET fechaHoraFin == fechaHoraInicio + duracion * MsPorMinuto
        citasDelDia ==
            SelectSeq(col, LAMBDA c : filtroDelDia(c, fechaHoraInicio, excludeId))
        cruces ==
            SelectSeq(citasDelDia,
                      LAMBDA c : haySolapamiento(fechaHoraInicio, fechaHoraFin,
                                                 c.fechaHora, citaFin(c)))
    IN  IF cruces = <<>> THEN <<>> ELSE <<cruces[1]>>

\* toLocaleTimeString("es-ES", {hour, minute}): the hour and minute of the
\* day, the date and the seconds dropped
horaLocal(t) == <<(t % MsPorDia) \div (60 * MsPorMinuto),
                  ((t % MsPorDia) \div MsPorMinuto) % 60>>

\* mutant: the end of the window taken 15 minutes after its start
ventanaConflictoPorDefecto(cita) ==
    <<horaLocal(cita.fechaHora),
      horaLocal(cita.fechaHora + DuracionDefecto * MsPorMinuto)>>

\* the window named in the conflict message
ventanaConflicto(cita) == <<horaLocal(cita.fechaHora), horaLocal(citaFin(cita))>>

-----------------------------------------------------------------------------
(* Requests and responses *)

\* a request: the body fields the handlers read (undefined when not sent)
SinPeticion ==
    [pacienteId |-> UNDEFINED, fechaHora |-> SinFecha, duracion |-> DurUndefined,
     motivo |-> UNDEFINED, tipoExamen |-> UNDEFINED, estado |-> UNDEFINED,
     notasMedico |-> UNDEFINED, motivoCancelacion |-> UNDEFINED,
     canceladoPor |-> UNDEFINED, nuevaFechaHora |-> SinFecha]

\* res.status(status).json(...): error names the failure, cruce is the
\* window of the conflict message, data is <<doc>> when a document is sent
respuesta(op, id, req, status, error, cruce, data) ==
    [op |-> op, id |-> id, req |-> req, status |-> status, error |-> error,
     cruce |-> cruce, data |-> data]

SinRespuesta == respuesta("none", 0, SinPeticion, 0, "none", <<>>, <<>>)

\* a request slot that holds no request
Libre == [pc |-> "libre", op |-> "none", id |-> 0, req |-> SinPeticion,
          cita |-> <<>>, antes |-> <<>>, resp |-> SinRespuesta]

Procs == {1, 2}

\* requests are handled one at a time: the server takes the next request
\* once the response to the last one has been delivered
enEspera == last.op = "none"

\* the response is delivered to the client
entregar ==
    /\ last.op # "none"
    /\ last' = SinRespuesta
    /\ UNCHANGED <<citas, nextId, reloj, procs, pagina>>

-----------------------------------------------------------------------------
(* createCita *)

\* mutant: the bounds 5 and 120 themselves rejected
duracionInvalidaExclusiva(duracionNum) ==
    isNaN(duracionNum) \/ duracionNum <= DuracionMin \/ duracionNum >= DuracionMax

\* the duration check of createCita (line 132) and updateCita (line 208)
duracionInvalida(duracionNum) ==
    isNaN(duracionNum) \/ duracionNum < DuracionMin \/ duracionNum > DuracionMax

\* mutant: the checks of createCita without the conflict scan
crearValidacionSinCruce(col, req) ==
    LET duracion == IF req.duracion.kind = "undefined"
                    THEN DurNum(DuracionDefecto) ELSE req.duracion
        duracionNum == parseInt(duracion)
    IN  IF req.pacienteId \notin Pacientes
        THEN [status |-> 404, error |-> "paciente", cruce |-> <<>>, duracionNum |-> 0]
        ELSE IF duracionInvalida(duracionNum)
        THEN [status |-> 400, error |-> "duracion", cruce |-> <<>>, duracionNum |-> 0]
        ELSE [status |-> 0, error |-> "ok", cruce |-> <<>>, duracionNum |-> duracionNum]

\* mutant: the checks of createCita with the duration tested first
crearValidacionDuracionAntes(col, req) ==
    LET duracion == IF req.duracion.kind = "undefined"
                    THEN DurNum(DuracionDefecto) ELSE req.duracion
        duracionNum == parseInt(duracion)
        citaConflictiva == validarCruceCitas(col, req.fechaHora, duracionNum, 0)
    IN  IF duracionInvalida(duracionNum)
        THEN [status |-> 400, error |-> "duracion", cruce |-> <<>>, duracionNum |-> 0]
        ELSE IF req.pacienteId \notin Pacientes
        THEN [status |-> 404, error |-> "paciente", cruce |-> <<>>, duracionNum |-> 0]
        ELSE IF citaConflictiva # <<>>
        THEN [status |-> 400, error |-> "cruce",
              cruce |-> ventanaConflicto(citaConflictiva[1]), duracionNum |-> 0]
        ELSE [status |-> 0, error |-> "ok", cruce |-> <<>>, duracionNum |-> duracionNum]

\* lines 122-150: the checks of createCita against the collection col;
\* "ok" when the request may be saved
crearValidacion(col, req) ==
    LET duracion == IF req.duracion.kind = "undefined"
                    THEN DurNum(DuracionDefecto) ELSE req.duracion
        duracionNum == parseInt(duracion)
        citaConflictiva == validarCruceCitas(col, req.fechaHora, duracionNum, 0)
    IN  IF req.pacienteId \notin Pacientes
        THEN [status |-> 404, error |-> "paciente", cruce |-> <<>>, duracionNum |-> 0]
        ELSE IF duracionInvalida(duracionNum)
        THEN [status |-> 400, error |-> "duracion", cruce |-> <<>>, duracionNum |-> 0]
        ELSE IF citaConflictiva # <<>>
        THEN [status |-> 400, error |-> "cruce",
              cruce |-> ventanaConflicto(citaConflictiva[1]), duracionNum |-> 0]
        ELSE [status |-> 0, error |-> "ok", cruce |-> <<>>, duracionNum |-> duracionNum]

\* lines 152-175: build the document, save it, answer
crearGuardado(req, duracionNum) ==
    LET doc == nuevaCita(nextId, req, req.fechaHora, duracionNum)
    IN  IF validaGuardado(TRUE, doc, doc)
        THEN /\ citas' = Append(citas, doc)
             /\ nextId' = nextId + 1
             /\ last' = respuesta("create", 0, req, 201, "none", <<>>, <<doc>>)
        ELSE /\ UNCHANGED <<citas, nextId>>
             /\ last' = respuesta("create", 0, req, 500, "server", <<>>, <<>>)

\* createCita handled without any other request in between
createCita(req) ==
    /\ enEspera
    /\ nextId <= MaxCitas
    /\ LET v == crearValidacion(citas, req)
       IN  IF v.error # "ok"
           THEN /\ last' = respuesta("create", 0, req, v.status, v.error, v.cruce, <<>>)
                /\ UNCHANGED <<citas, nextId>>
           ELSE crearGuardado(req, v.duracionNum)
    /\ UNCHANGED <<reloj, procs, pagina>>

-----------------------------------------------------------------------------
(* updateCita *)

\* mutant: the checks of updateCita run on every update, whatever it carries
actualizarValidacionSiempre(col, id, cita, req) ==
    LET nuevaFechaHora == IF req.fechaHora # SinFecha THEN req.fechaHora ELSE cita.fechaHora
        nuevaDuracion ==
            IF req.duracion.kind # "undefined" THEN parseInt(req.duracion)
            ELSE IF cita.duracion # 0 THEN cita.duracion ELSE DuracionDefecto
        citaConflictiva == validarCruceCitas(col, nuevaFechaHora, nuevaDuracion, id)
    IN  IF duracionInvalida(nuevaDuracion)
        THEN [status |-> 400, error |-> "duracion", cruce |-> <<>>, cita |-> cita]
        ELSE IF citaConflictiva # <<>>
        THEN [status |-> 400, error |-> "cruce",
              cruce |-> ventanaConflicto(citaConflictiva[1]), cita |-> cita]
        ELSE [status |-> 0, error |-> "ok", cruce |-> <<>>,
              cita |-> [cita EXCEPT !.fechaHora = nuevaFechaHora,
                                    !.duracion = nuevaDuracion]]

\* lines 203-226: the duration and conflict checks of updateCita for the
\* loaded document cita, against the collection col
actualizarValidacion(col, id, cita, req) ==
    LET nuevaFechaHora == IF req.fechaHora # SinFecha THEN req.fechaHora ELSE cita.fechaHora
        nuevaDuracion ==
            IF req.duracion.kind # "undefined" THEN parseInt(req.duracion)
            ELSE IF cita.duracion # 0 THEN cita.duracion ELSE DuracionDefecto
        citaConflictiva == validarCruceCitas(col, nuevaFechaHora, nuevaDuracion, id)
    IN  IF ~(req.fechaHora # SinFecha \/ req.duracion.kind # "undefined")
        THEN [status |-> 0, error |-> "ok", cruce |-> <<>>, cita |-> cita]
        ELSE IF duracionInvalida(nuevaDuracion)
        THEN [status |-> 400, error |-> "duracion", cruce |-> <<>>, cita |-> cita]
        ELSE IF citaConflictiva # <<>>
        THEN [status |-> 400, error |-> "cruce",
              cruce |-> ventanaConflicto(citaConflictiva[1]), cita |-> cita]
        ELSE [status |-> 0, error |-> "ok", cruce |-> <<>>,
              cita |-> [cita EXCEPT !.fechaHora = nuevaFechaHora,
                                    !.duracion = nuevaDuracion]]

\* mutant: the request applied without the consequences of the new status
actualizarCamposSinSello(cita, req, ahora) ==
    LET c1 == IF Truthy(req.pacienteId) THEN [cita EXCEPT !.pacienteId = req.pacienteId] ELSE cita
        c2 == IF Truthy(req.tipoExamen) THEN [c1 EXCEPT !.tipoExamen = req.tipoExamen] ELSE c1
        c3 == IF req.motivo # UNDEFINED THEN [c2 EXCEPT !.motivo = req.motivo] ELSE c2
        c4 == IF Truthy(req.estado) THEN [c3 EXCEPT !.estado = req.estado] ELSE c3
    IN  IF req.notasMedico # UNDEFINED THEN [c4 EXCEPT !.notasMedico = req.notasMedico] ELSE c4

\* lines 232-252: the other fields of the request applied to the document
actualizarCampos(cita, req, ahora) ==
    LET c1 == IF Truthy(req.pacienteId) THEN [cita EXCEPT !.pacienteId = req.pacienteId] ELSE cita
        c2 == IF Truthy(req.tipoExamen) THEN [c1 EXCEPT !.tipoExamen = req.tipoExamen] ELSE c1
        c3 == IF req.motivo # UNDEFINED THEN [c2 EXCEPT !.motivo = req.motivo] ELSE c2
        c4 == IF Truthy(req.estado) THEN [c3 EXCEPT !.estado = req.estado] ELSE c3
        c5 == IF Truthy(req.estado) /\ req.estado = "Atendida"
              THEN [c4 EXCEPT !.fechaAtendida = ahora] ELSE c4
        c6 == IF Truthy(req.estado) /\ req.estado = "Cancelada"
              THEN [c5 EXCEPT
                      !.canceladoPor = IF Truthy(req.canceladoPor)
                                       THEN req.canceladoPor ELSE "Admin",
                      !.motivoCancelacion = IF Truthy(req.motivoCancelacion)
                                            THEN req.motivoCancelacion
                                            ELSE "Sin especificar"]
              ELSE c5
    IN  IF req.notasMedico # UNDEFINED THEN [c6 EXCEPT !.notasMedico = req.notasMedico] ELSE c6

\* cita.save() of a loaded document: only the paths modified since it was
\* loaded (antes) are written over the stored document
escribirModificados(stored, antes, doc) ==
    [f \in DOMAIN stored |-> IF doc[f] # antes[f] THEN doc[f] ELSE stored[f]]

\* mutant: updateCita saving the other fields of a request it rejects
updateCitaGuardaRechazada(id, req) ==
    /\ enEspera
    /\ LET cita == findById(citas, id)
       IN  IF cita = <<>>
           THEN /\ last' = respuesta("update", id, req, 404, "notfound", <<>>, <<>>)
                /\ UNCHANGED citas
           ELSE LET v == actualizarValidacion(citas, id, cita[1], req)
                    doc == actualizarCampos(v.cita, req, reloj)
                IN  IF v.error # "ok"
                    THEN /\ last' = respuesta("update", id, req, v.status, v.error,
                                              v.cruce, <<>>)
                         /\ citas' = guardar(citas, doc)
                    ELSE IF ~validaGuardado(FALSE, cita[1], doc)
                    THEN /\ last' = respuesta("update", id, req, 500, "server", <<>>, <<>>)
                         /\ UNCHANGED citas
                    ELSE /\ citas' = guardar(citas, doc)
                         /\ last' = respuesta("update", id, req, 200, "none", <<>>, <<doc>>)
    /\ UNCHANGED <<nextId, reloj, procs, pagina>>

\* updateCita handled without any other request in between
updateCita(id, req) ==
    /\ enEspera
    /\ LET cita == findById(citas, id)
       IN  IF cita = <<>>
           THEN /\ last' = respuesta("update", id, req, 404, "notfound", <<>>, <<>>)
                /\ UNCHANGED citas
           ELSE LET v == actualizarValidacion(citas, id, cita[1], req)
                    doc == actualizarCampos(v.cita, req, reloj)
                IN  IF v.error # "ok"
                    THEN /\ last' = respuesta("update", id, req, v.status, v.error,
                                              v.cruce, <<>>)
                         /\ UNCHANGED citas
                    ELSE IF ~validaGuardado(FALSE, cita[1], doc)
                    THEN /\ last' = respuesta("update", id, req, 500, "server", <<>>, <<>>)
                         /\ UNCHANGED citas
                    ELSE /\ citas' = guardar(citas, doc)
                         /\ last' = respuesta("update", id, req, 200, "none", <<>>, <<doc>>)
    /\ UNCHANGED <<nextId, reloj, procs, pagina>>

-----------------------------------------------------------------------------
(* The handlers built on findById / findByIdAndDelete / findByIdAndUpdate *)

\* Cita.findByIdAndUpdate(id, cambios, {new: true}): the fields are set
\* without running the schema validators; cambia(doc) is the updated document
findByIdAndUpdate(op, id, req, cambia(_)) ==
    LET cita == findById(citas, id)
    IN  IF cita = <<>>
        THEN /\ last' = respuesta(op, id, req, 404, "notfound", <<>>, <<>>)
             /\ UNCHANGED citas
        ELSE /\ citas' = guardar(citas, cambia(cita[1]))
             /\ last' = respuesta(op, id, req, 200, "none", <<>>, <<cambia(cita[1])>>)

getCitaById(id) ==
    /\ enEspera
    /\ LET cita == findById(citas, id)
       IN  IF cita = <<>>
           THEN last' = respuesta("get", id, SinPeticion, 404, "notfound", <<>>, <<>>)
           ELSE last' = respuesta("get", id, SinPeticion, 200, "none", <<>>, cita)
    /\ UNCHANGED <<citas, nextId, reloj, procs, pagina>>

\* mutant: deleteCita answering without looking at what was found
deleteCitaSinComprobar(id) ==
    /\ enEspera
    /\ citas' = quitar(citas, id)
    /\ last' = respuesta("delete", id, SinPeticion, 200, "none", <<>>, <<>>)
    /\ UNCHANGED <<nextId, reloj, procs, pagina>>

\* mutant: deleteCita marking the appointment Cancelada instead of removing it
deleteCitaSuave(id) ==
    /\ enEspera
    /\ findByIdAndUpdate("delete", id, SinPeticion,
                         LAMBDA c : [c EXCEPT !.estado = "Cancelada"])
    /\ UNCHANGED <<nextId, reloj, procs, pagina>>

deleteCita(id) ==
    /\ enEspera
    /\ LET cita == findById(citas, id)
       IN  IF cita = <<>>
           THEN /\ last' = respuesta("delete", id, SinPeticion, 404, "notfound", <<>>, <<>>)
                /\ UNCHANGED citas
           ELSE /\ citas' = quitar(citas, id)
                /\ last' = respuesta("delete", id, SinPeticion, 200, "none", <<>>, <<>>)
    /\ UNCHANGED <<nextId, reloj, procs, pagina>>

\* mutant: confirmarCita refusing an appointment that is Cancelada or Atendida
confirmarCitaSoloAbierta(id) ==
    /\ enEspera
    /\ LET cita == findById(citas, id)
       IN  IF cita # <<>> /\ cita[1].estado \in {"Cancelada", "Atendida"}
           THEN /\ last' = respuesta("confirmar", id, SinPeticion, 400, "estado",
                                     <<>>, <<>>)
                /\ UNCHANGED citas
           ELSE findByIdAndUpdate("confirmar", id, SinPeticion,
                                  LAMBDA c : [c EXCEPT !.estado = "Confirmada"])
    /\ UNCHANGED <<nextId, reloj, procs, pagina>>

\* mutant: confirmarCita clearing the cancellation and attendance stamps
confirmarCitaLimpiando(id) ==
    /\ enEspera
    /\ findByIdAndUpdate("confirmar", id, SinPeticion,
                         LAMBDA c : [c EXCEPT !.estado = "Confirmada",
                                              !.canceladoPor = NULL,
                                              !.motivoCancelacion = NULL,
                                              !.fechaAtendida = SinFecha])
    /\ UNCHANGED <<nextId, reloj, procs, pagina>>

confirmarCita(id) ==
    /\ enEspera
    /\ findByIdAndUpdate("confirmar", id, SinPeticion,
                         LAMBDA c : [c EXCEPT !.estado = "Confirmada"])
    /\ UNCHANGED <<nextId, reloj, procs, pagina>>

\* mutant: reprogramarCita scanning the new window as updateCita does
reprogramarCitaValidando(id, req) ==
    /\ enEspera
    /\ LET cita == findById(citas, id)
           citaConflictiva ==
               validarCruceCitas(citas, req.nuevaFechaHora, cita[1].duracion, id)
       IN  IF cita # <<>> /\ citaConflictiva # <<>>
           THEN /\ last' = respuesta("reprogramar", id, req, 400, "cruce",
                                     ventanaConflicto(citaConflictiva[1]), <<>>)
                /\ UNCHANGED citas
           ELSE findByIdAndUpdate("reprogramar", id, req,
                                  LAMBDA c : [c EXCEPT !.fechaHora = req.nuevaFechaHora,
                                                       !.estado = "Reprogramada"])
    /\ UNCHANGED <<nextId, reloj, procs, pagina>>

\* mutant: reprogramarCita clearing the cancellation and attendance fields
reprogramarCitaLimpiando(id, req) ==
    /\ enEspera
    /\ findByIdAndUpdate("reprogramar", id, req,
                         LAMBDA c : [c EXCEPT !.fechaHora = req.nuevaFechaHora,
                                              !.estado = "Reprogramada",
                                              !.canceladoPor = NULL,
                                              !.motivoCancelacion = NULL,
                                              !.fechaAtendida = SinFecha])
    /\ UNCHANGED <<nextId, reloj, procs, pagina>>

reprogramarCita(id, req) ==
    /\ enEspera
    /\ findByIdAndUpdate("reprogramar", id, req,
                         LAMBDA c : [c EXCEPT !.fechaHora = req.nuevaFechaHora,
                                              !.estado = "Reprogramada"])
    /\ UNCHANGED <<nextId, reloj, procs, pagina>>

\* mutant: cancelarCita recording every cancellation as made by Admin
cancelarCitaSiempreAdmin(id, req) ==
    /\ enEspera
    /\ findByIdAndUpdate("cancelar", id, req,
                         LAMBDA c : [c EXCEPT
                             !.estado = "Cancelada",
                             !.motivoCancelacion = IF Truthy(req.motivo)
                                                   THEN req.motivo ELSE "Sin especificar",
                             !.canceladoPor = "Admin"])
    /\ UNCHANGED <<nextId, reloj, procs, pagina>>

cancelarCita(id, req) ==
    /\ enEspera
    /\ findByIdAndUpdate("cancelar", id, req,
                         LAMBDA c : [c EXCEPT
                             !.estado = "Cancelada",
                             !.motivoCancelacion = IF Truthy(req.motivo)
                                                   THEN req.motivo ELSE "Sin especificar",
                             !.canceladoPor = IF Truthy(req.canceladoPor)
                                              THEN req.canceladoPor ELSE "Admin"])
    /\ UNCHANGED <<nextId, reloj, procs, pagina>>

\* mutant: marcarAtendida keeping the stored notes when it is sent none
marcarAtendidaConservaNotas(id, req) ==
    /\ enEspera
    /\ findByIdAndUpdate("atendida", id, req,
                         LAMBDA c : [c EXCEPT
                             !.estado = "Atendida",
                             !.fechaAtendida = reloj,
                             !.notasMedico = IF Truthy(req.notasMedico)
                                             THEN req.notasMedico ELSE c.notasMedico])
    /\ UNCHANGED <<nextId, reloj, procs, pagina>>

\* mutant: marcarAtendida keeping the attendance time already stored
marcarAtendidaUnaVez(id, req) ==
    /\ enEspera
    /\ findByIdAndUpdate("atendida", id, req,
                         LAMBDA c : [c EXCEPT
                             !.estado = "Atendida",
                             !.fechaAtendida = IF c.fechaAtendida # SinFecha
                                               THEN c.fechaAtendida ELSE reloj,
                             !.notasMedico = IF Truthy(req.notasMedico)
                                             THEN req.notasMedico ELSE NULL])
    /\ UNCHANGED <<nextId, reloj, procs, pagina>>

marcarAtendida(id, req) ==
    /\ enEspera
    /\ findByIdAndUpdate("atendida", id, req,
                         LAMBDA c : [c EXCEPT
                             !.estado = "Atendida",
                             !.fechaAtendida = reloj,
                             !.notasMedico = IF Truthy(req.notasMedico)
                                             THEN req.notasMedico ELSE NULL])
    /\ UNCHANGED <<nextId, reloj, procs, pagina>>

\* time passes between requests
Tic ==
    /\ enEspera
    /\ reloj < MaxReloj
    /\ reloj' = reloj + 1
    /\ UNCHANGED <<citas, nextId, last, procs, pagina>>

-----------------------------------------------------------------------------
(* Requests the clients send *)

\* start times: 23:30 and 23:45 of day 0 and 00:00 of day 1, so that with
\* durations of 15 and 45 minutes windows overlap, touch, contain each
\* other and run over midnight
Inicios == {Hora(0, 23, 30), Hora(0, 23, 45), Hora(1, 0, 0)}

\* duracion as sent when scheduling: absent (15 by default) or 45
DuracionesAgenda == {DurUndefined, DurNum(45)}

\* duracion as sent around the bounds: 4.9, 5, 120, 120.5, 121, 0, a text
DuracionesLimite ==
    {DurUndefined, DurDec(4, 9), DurNum(5), DurNum(120), DurDec(120, 5),
     DurNum(121), DurNum(0), DurTexto}

Ids == 1..MaxCitas

peticionCrear(pacienteId, fechaHora, duracion, motivo) ==
    [SinPeticion EXCEPT !.pacienteId = pacienteId, !.fechaHora = fechaHora,
                        !.duracion = duracion, !.motivo = motivo,
                        !.tipoExamen = "Laboratorio"]

peticionActualizar(fechaHora, duracion, estado) ==
    [SinPeticion EXCEPT !.fechaHora = fechaHora, !.duracion = duracion,
                        !.estado = estado]

\* create requests of the scheduling runs: every start and duration for the
\* known patient, one for an unknown patient, one without motivo
CrearAgenda ==
    {peticionCrear("p1", f, d, "control") : f \in Inicios, d \in DuracionesAgenda}
      \cup {peticionCrear("p9", Hora(0, 23, 30), DurUndefined, "control"),
            peticionCrear("p1", Hora(0, 23, 30), DurUndefined, UNDEFINED)}

\* update requests of the scheduling runs: a new start, a new duration, or
\* both, with or without a status
ActualizarAgenda ==
    {peticionActualizar(f, d, e) :
        f \in Inicios \cup {SinFecha}, d \in DuracionesAgenda,
        e \in {UNDEFINED, "Cancelada", "Pendiente"}}

\* requests around the duration bounds, on two days
CrearLimite ==
    {peticionCrear("p1", f, d, "control") :
        f \in {Hora(0, 9, 0), Hora(1, 9, 0)}, d \in DuracionesLimite}
      \cup {peticionCrear("p9", Hora(0, 9, 0), d, "control") :
               d \in {DurUndefined, DurNum(121)}}

\* an update body that carries every field updateCita reads
peticionCompleta(fechaHora, duracion) ==
    [peticionActualizar(fechaHora, duracion, "Confirmada")
        EXCEPT !.pacienteId = "p2", !.motivo = "otro", !.tipoExamen = "Especialidad",
               !.notasMedico = "nota"]

ActualizarLimite ==
    {peticionActualizar(f, d, UNDEFINED) :
        f \in {SinFecha, Hora(1, 9, 0)}, d \in DuracionesLimite}
      \cup {peticionCompleta(Hora(1, 9, 0), d) : d \in {DurNum(5), DurNum(121)}}

-----------------------------------------------------------------------------
(* Specifications *)

Init ==
    /\ citas = <<>>
    /\ nextId = 1
    /\ reloj = 0
    /\ last = SinRespuesta
    /\ procs = [p \in Procs |-> Libre]
    /\ citasData = <<>>
    /\ citasFiltradas = <<>>
    /\ currentPage = 1

\* create and update only, one request at a time
NextCU ==
    \/ \E req \in CrearAgenda : createCita(req)
    \/ \E id \in Ids, req \in ActualizarAgenda : updateCita(id, req)
    \/ entregar

SpecCU == Init /\ [][NextCU]_vars

\* scheduling, one request at a time: create, update, cancel, delete
NextAgenda ==
    \/ \E req \in CrearAgenda : createCita(req)
    \/ \E id \in Ids, req \in ActualizarAgenda : updateCita(id, req)
    \/ \E id \in Ids : cancelarCita(id, SinPeticion)
    \/ \E id \in Ids : deleteCita(id)
    \/ entregar

SpecAgenda == Init /\ [][NextAgenda]_vars

\* create and update around the duration bounds, one request at a time
NextLimite ==
    \/ \E req \in CrearLimite : createCita(req)
    \/ \E id \in Ids, req \in ActualizarLimite : updateCita(id, req)
    \/ entregar

SpecLimite == Init /\ [][NextLimite]_vars

-----------------------------------------------------------------------------
(* Interleaved requests: each handler runs up to its next await, and the   *)
(* store executes one operation (find, save) at a time                     *)

\* a request slot that has answered
terminado(op, id, req, status, error, cruce, data) ==
    [pc |-> "fin", op |-> op, id |-> id, req |-> req, cita |-> <<>>, antes |-> <<>>,
     resp |-> respuesta(op, id, req, status, error, cruce, data)]

\* the creates that passed their checks and have not saved yet
crearEnVuelo == {p \in Procs : procs[p].pc = "guardar" /\ procs[p].op = "create"}

\* createCita, lines 122-150: patient lookup, duration check and the
\* Cita.find of validarCruceCitas; the save is left pending
crearValidar(p, req) ==
    /\ procs[p].pc = "libre"
    /\ nextId + Cardinality(crearEnVuelo) <= MaxCitas
    /\ LET v == crearValidacion(citas, req)
       IN  procs' = [procs EXCEPT ![p] =
               IF v.error # "ok"
               THEN terminado("create", 0, req, v.status, v.error, v.cruce, <<>>)
               ELSE [pc |-> "guardar", op |-> "create", id |-> 0, req |-> req,
                     cita |-> <<nuevaCita(0, req, req.fechaHora, v.duracionNum)>>,
                     antes |-> <<>>, resp |-> SinRespuesta]]
    /\ UNCHANGED <<citas, nextId, reloj, last, pagina>>

\* mutant: the save of createCita scans for conflicts again and answers
\* with the conflict instead of inserting
crearGuardarRevalidando(p) ==
    /\ procs[p].pc = "guardar" /\ procs[p].op = "create"
    /\ LET doc == [procs[p].cita[1] EXCEPT !.id = nextId]
           req == procs[p].req
           v == crearValidacion(citas, req)
       IN  IF v.error = "ok" /\ validaGuardado(TRUE, doc, doc)
           THEN /\ citas' = Append(citas, doc)
                /\ nextId' = nextId + 1
                /\ procs' = [procs EXCEPT ![p] =
                       terminado("create", 0, req, 201, "none", <<>>, <<doc>>)]
           ELSE /\ UNCHANGED <<citas, nextId>>
                /\ procs' = [procs EXCEPT ![p] =
                       terminado("create", 0, req, 400, "cruce", v.cruce, <<>>)]
    /\ UNCHANGED <<reloj, last, pagina>>

\* createCita, lines 152-175: nuevaCita.save() and the answer
crearGuardar(p) ==
    /\ procs[p].pc = "guardar" /\ procs[p].op = "create"
    /\ LET doc == [procs[p].cita[1] EXCEPT !.id = nextId]
           req == procs[p].req
       IN  IF validaGuardado(TRUE, doc, doc)
           THEN /\ citas' = Append(citas, doc)
                /\ nextId' = nextId + 1
                /\ procs' = [procs EXCEPT ![p] =
                       terminado("create", 0, req, 201, "none", <<>>, <<doc>>)]
           ELSE /\ UNCHANGED <<citas, nextId>>
                /\ procs' = [procs EXCEPT ![p] =
                       terminado("create", 0, req, 500, "server", <<>>, <<>>)]
    /\ UNCHANGED <<reloj, last, pagina>>

\* whether updateCita runs its duration and conflict checks
tocaHorario(req) == req.fechaHora # SinFecha \/ req.duracion.kind # "undefined"

\* updateCita, lines 194-201: Cita.findById; a request without fechaHora
\* and duracion goes on to its save without another await
actualizarCargar(p, id, req) ==
    /\ procs[p].pc = "libre"
    /\ LET cita == findById(citas, id)
       IN  procs' = [procs EXCEPT ![p] =
               IF cita = <<>>
               THEN terminado("update", id, req, 404, "notfound", <<>>, <<>>)
               ELSE IF tocaHorario(req)
               THEN [pc |-> "validar", op |-> "update", id |-> id, req |-> req,
                     cita |-> cita, antes |-> cita, resp |-> SinRespuesta]
               ELSE [pc |-> "guardar", op |-> "update", id |-> id, req |-> req,
                     cita |-> <<actualizarCampos(cita[1], req, reloj)>>,
                     antes |-> cita, resp |-> SinRespuesta]]
    /\ UNCHANGED <<citas, nextId, reloj, last, pagina>>

\* updateCita, lines 203-252: the duration check, the Cita.find of
\* validarCruceCitas, and the fields set on the loaded document
actualizarValidar(p) ==
    /\ procs[p].pc = "validar" /\ procs[p].op = "update"
    /\ LET id == procs[p].id
           req == procs[p].req
           v == actualizarValidacion(citas, id, procs[p].cita[1], req)
       IN  procs' = [procs EXCEPT ![p] =
               IF v.error # "ok"
               THEN terminado("update", id, req, v.status, v.error, v.cruce, <<>>)
               ELSE [procs[p] EXCEPT
                       !.pc = "guardar",
                       !.cita = <<actualizarCampos(v.cita, req, reloj)>>]]
    /\ UNCHANGED <<citas, nextId, reloj, last, pagina>>

\* mutant: the save of updateCita scans for conflicts again and answers
\* with the conflict instead of writing
actualizarGuardarRevalidando(p) ==
    /\ procs[p].pc = "guardar" /\ procs[p].op = "update"
    /\ LET id == procs[p].id
           req == procs[p].req
           doc == procs[p].cita[1]
           antes == procs[p].antes[1]
           stored == findById(citas, id)
           citaConflictiva == validarCruceCitas(citas, doc.fechaHora, doc.duracion, id)
       IN  IF stored = <<>> \/ ~validaGuardado(FALSE, antes, doc)
           THEN /\ UNCHANGED citas
                /\ procs' = [procs EXCEPT ![p] =
                       terminado("update", id, req, 500, "server", <<>>, <<>>)]
           ELSE IF tocaHorario(req) /\ citaConflictiva # <<>>
           THEN /\ UNCHANGED citas
                /\ procs' = [procs EXCEPT ![p] =
                       terminado("update", id, req, 400, "cruce",
                                 ventanaConflicto(citaConflictiva[1]), <<>>)]
           ELSE /\ citas' = guardar(citas, escribirModificados(stored[1], antes, doc))
                /\ procs' = [procs EXCEPT ![p] =
                       terminado("update", id, req, 200, "none", <<>>, <<doc>>)]
    /\ UNCHANGED <<nextId, reloj, last, pagina>>

\* updateCita, lines 254-267: cita.save() writes the modified paths of the
\* loaded document; it fails when the document is no longer stored
actualizarGuardar(p) ==
    /\ procs[p].pc = "guardar" /\ procs[p].op = "update"
    /\ LET id == procs[p].id
           req == procs[p].req
           doc == procs[p].cita[1]
           antes == procs[p].antes[1]
           stored == findById(citas, id)
       IN  IF stored = <<>> \/ ~validaGuardado(FALSE, antes, doc)
           THEN /\ UNCHANGED citas
                /\ procs' = [procs EXCEPT ![p] =
                       terminado("update", id, req, 500, "server", <<>>, <<>>)]
           ELSE /\ citas' = guardar(citas, escribirModificados(stored[1], antes, doc))
                /\ procs' = [procs EXCEPT ![p] =
                       terminado("update", id, req, 200, "none", <<>>, <<doc>>)]
    /\ UNCHANGED <<nextId, reloj, last, pagina>>

\* the response of slot p is delivered and the slot is free again
liberar(p) ==
    /\ procs[p].pc = "fin"
    /\ procs' = [procs EXCEPT ![p] = Libre]
    /\ UNCHANGED <<citas, nextId, reloj, last, pagina>>

\* requests of the interleaved runs: three windows to create, and updates
\* that move an appointment to 23:45 or stretch it to 45 minutes
CrearConcurrente ==
    {peticionCrear("p1", Hora(0, 23, 30), DurNum(45), "control"),
     peticionCrear("p1", Hora(0, 23, 45), DurUndefined, "control"),
     peticionCrear("p1", Hora(1, 0, 0), DurUndefined, "control")}

ActualizarConcurrente ==
    {peticionActualizar(Hora(0, 23, 45), DurUndefined, UNDEFINED),
     peticionActualizar(SinFecha, DurNum(45), UNDEFINED),
     peticionActualizar(SinFecha, DurUndefined, "Confirmada")}

NextConc ==
    \/ \E p \in Procs, req \in CrearConcurrente : crearValidar(p, req)
    \/ \E p \in Procs : crearGuardar(p)
    \/ \E p \in Procs, id \in Ids, req \in ActualizarConcurrente :
          actualizarCargar(p, id, req)
    \/ \E p \in Procs : actualizarValidar(p)
    \/ \E p \in Procs : actualizarGuardar(p)
    \/ \E p \in Procs : liberar(p)

SpecConc == Init /\ [][NextConc]_vars

-----------------------------------------------------------------------------
(* The conflict detector on its own: validarCruceCitas and its overlap     *)
(* test applied to collections and windows drawn from bounded sets         *)

\* a stored document with the given window and status; duracion 0 stands
\* for a record without duracion
citaGuardada(id, fechaHora, duracion, estado) ==
    [id |-> id, pacienteId |-> "p1", medicoId |-> NULL, fechaHora |-> fechaHora,
     duracion |-> duracion, motivo |-> "control", tipoExamen |-> "Laboratorio",
     estado |-> estado,
     canceladoPor |-> IF estado = "Cancelada" THEN "Admin" ELSE NULL,
     motivoCancelacion |-> IF estado = "Cancelada" THEN "Sin especificar" ELSE NULL,
     notasMedico |-> NULL, fechaAtendida |-> SinFecha]

\* the documents a collection may hold at position id
DocumentosEn(id) ==
    {citaGuardada(id, f, d, e) :
        f \in Inicios, d \in {0, DuracionDefecto, 45}, e \in {"Pendiente", "Cancelada"}}

\* the collections of up to MaxCitas documents with ids 1, 2, ...
RECURSIVE ColeccionesDe(_)
ColeccionesDe(n) ==
    IF n = 0 THEN {<<>>}
    ELSE {Append(col, doc) : col \in ColeccionesDe(n - 1), doc \in DocumentosEn(n)}

InitPuro ==
    /\ citas \in UNION {ColeccionesDe(n) : n \in 0..MaxCitas}
    /\ nextId = Len(citas) + 1
    /\ reloj = 0
    /\ last = SinRespuesta
    /\ procs = [p \in Procs |-> Libre]
    /\ citasData = <<>>
    /\ citasFiltradas = <<>>
    /\ currentPage = 1

\* validarCruceCitas(fechaHoraInicio, duracion, excludeId) on the collection
escanear(fechaHoraInicio, duracion, excludeId) ==
    /\ enEspera
    /\ last' = respuesta("scan", excludeId,
                         [SinPeticion EXCEPT !.fechaHora = fechaHoraInicio,
                                             !.duracion = DurNum(duracion)],
                         0, "none", <<>>,
                         validarCruceCitas(citas, fechaHoraInicio, duracion, excludeId))
    /\ UNCHANGED <<citas, nextId, reloj, procs, pagina>>

\* the start times and durations (in minutes) of the windows the overlap
\* test is tried on: a quarter-hour grid
InstantesPrueba == {Hora(0, 9, 0) + k * 15 * MsPorMinuto : k \in 0..3}
DuracionesPrueba == {15, 30, 45}

\* the overlap test on a candidate window and an existing window, and on
\* the same two windows with their roles exchanged
solapar(inicio, duracion, citaInicio, citaDuracion) ==
    /\ enEspera
    /\ LET fin == inicio + duracion * MsPorMinuto
           citaFinal == citaInicio + citaDuracion * MsPorMinuto
       IN  last' = respuesta("solapa", 0, SinPeticion, 0, "none", <<>>,
                     <<[inicio |-> inicio, fin |-> fin,
                        citaInicio |-> citaInicio, citaFinal |-> citaFinal,
                        cruce |-> haySolapamiento(inicio, fin, citaInicio, citaFinal),
                        inverso |-> haySolapamiento(citaInicio, citaFinal, inicio, fin)]>>)
    /\ UNCHANGED <<citas, nextId, reloj, procs, pagina>>

\* candidate starts of the scans: the starts of the stored appointments and
\* one ten minutes into the first of them
IniciosCandidato == Inicios \cup {Hora(0, 23, 40)}

NextPuro ==
    \/ \E f \in IniciosCandidato, d \in {DuracionDefecto, 45}, x \in {0} \cup Ids :
          escanear(f, d, x)
    \/ \E a, b \in InstantesPrueba, d, e \in DuracionesPrueba : solapar(a, d, b, e)
    \/ entregar

SpecPuro == InitPuro /\ [][NextPuro]_vars

-----------------------------------------------------------------------------
(* Vocabulary of the properties *)

\* the calendar day of a timestamp
Dia(t) == t \div MsPorDia

\* the half-open window [startAt, startAt + durationMinutes) of an appointment
Desde(c) == c.fechaHora
Hasta(c) == c.fechaHora + c.duracion * MsPorMinuto

\* two half-open windows [a1, a2) and [b1, b2) share an instant
Comparten(a1, a2, b1, b2) == a1 < b2 /\ b1 < a2

Activa(c) == c.estado # "Cancelada"

\* no two distinct active appointments that start on the same calendar day
\* have overlapping windows
SinCruces(col) ==
    \A i, j \in 1..Len(col) :
        (i # j /\ Activa(col[i]) /\ Activa(col[j])
             /\ Dia(Desde(col[i])) = Dia(Desde(col[j])))
        => ~Comparten(Desde(col[i]), Hasta(col[i]), Desde(col[j]), Hasta(col[j]))

\* the step answers request op with a success
Exito(op) == last'.op = op /\ last'.status \in {200, 201}

\* the step is a successful update that carries neither fechaHora nor
\* duracion and turns a Cancelada appointment into an active one
ReactivaSinValidar ==
    /\ Exito("update")
    /\ last'.req.fechaHora = SinFecha
    /\ last'.req.duracion.kind = "undefined"
    /\ \E i \in 1..Len(citas) :
          /\ citas[i].id = last'.id
          /\ ~Activa(citas[i])
          /\ Activa(citas'[i])

-----------------------------------------------------------------------------
(* C1 *)

\* C1 (as stated): after any sequence of successful create and update
\* operations run one at a time from the empty collection, no two distinct
\* non-cancelled appointments starting on the same calendar day overlap.
C1_SinCrucesSiempre == SinCruces(citas)

\* C1 (amended): a create or update step keeps the collection free of
\* same-day overlaps between non-cancelled appointments, unless it is an
\* update without startAt and durationMinutes that changes a Cancelled
\* appointment to a non-cancelled status.
C1_PasoConservaSinCruces ==
    [][(SinCruces(citas) /\ ~ReactivaSinValidar) => SinCruces(citas')]_vars

\* C1 witness: an update moved an appointment next to another active
\* appointment of the same day, and nothing overlaps
C1_Testigo ==
    /\ last.op = "update" /\ last.status = 200
    /\ last.req.fechaHora # SinFecha
    /\ Len(citas) = 2
    /\ Activa(citas[1]) /\ Activa(citas[2])
    /\ Dia(Desde(citas[1])) = Dia(Desde(citas[2]))
    /\ Hasta(citas[1]) = Desde(citas[2])
    /\ SinCruces(citas)

-----------------------------------------------------------------------------
(* C2 *)

\* slot p saves the document of a create in this step
GuardaCrear(p) ==
    /\ procs[p].pc = "guardar" /\ procs[p].op = "create"
    /\ procs'[p].pc = "fin"

\* C2: the conflict scan and the write of create are separate steps: a
\* create that passed its scan inserts its appointment as Pending with the
\* requested window when it saves, whatever was written to the collection
\* since the scan (so two creates for overlapping windows that both scan
\* before either saves are both persisted).
C2_GuardarNoRevalida ==
    [][\A p \in Procs :
          (GuardaCrear(p) /\ Truthy(procs[p].req.motivo)) =>
              /\ procs'[p].resp.status = 201
              /\ Len(citas') = Len(citas) + 1
              /\ SubSeq(citas', 1, Len(citas)) = citas
              /\ citas'[Len(citas')].estado = "Pendiente"
              /\ citas'[Len(citas')].fechaHora = procs[p].req.fechaHora
              /\ citas'[Len(citas')].duracion = procs[p].cita[1].duracion]_vars

\* C2 witness: both slots have answered 201 to a create, and the two
\* appointments they inserted are Pending, start on the same day and overlap
C2_Testigo ==
    /\ \A p \in Procs : /\ procs[p].pc = "fin" /\ procs[p].op = "create"
                        /\ procs[p].resp.status = 201
    /\ Len(citas) = 2
    /\ {citas[1], citas[2]} = {procs[p].resp.data[1] : p \in Procs}
    /\ citas[1].estado = "Pendiente" /\ citas[2].estado = "Pendiente"
    /\ Dia(Desde(citas[1])) = Dia(Desde(citas[2]))
    /\ Comparten(Desde(citas[1]), Hasta(citas[1]), Desde(citas[2]), Hasta(citas[2]))

-----------------------------------------------------------------------------
(* C3, C4, C6 *)

\* the end of a stored appointment, a record without duracion lasting the
\* default 15 minutes
HastaGuardada(c) ==
    c.fechaHora + (IF c.duracion = 0 THEN DuracionDefecto ELSE c.duracion) * MsPorMinuto

\* the positions of the appointments that (i) start on the candidate's
\* calendar day, (ii) are not Cancelled, (iii) are not excludeId and
\* (iv) overlap the candidate window
EnConflicto(col, inicio, duracion, excludeId) ==
    {i \in 1..Len(col) :
        /\ Dia(col[i].fechaHora) = Dia(inicio)
        /\ Activa(col[i])
        /\ (excludeId = 0 \/ col[i].id # excludeId)
        /\ Comparten(inicio, inicio + duracion * MsPorMinuto,
                     col[i].fechaHora, HastaGuardada(col[i]))}

\* C3: validarCruceCitas returns an appointment exactly when the collection
\* holds one that is on the candidate's day, not Cancelled, not excludeId
\* and overlapping the candidate window; the appointment returned is one of
\* these; otherwise it returns null.
C3_CruceSiYSoloSi ==
    last.op = "scan" =>
        LET hallados == EnConflicto(citas, last.req.fechaHora, last.req.duracion.n, last.id)
        IN  /\ (last.data # <<>>) <=> (hallados # {})
            /\ last.data # <<>> => \E i \in hallados : citas[i] = last.data[1]

\* C3 witness: a scan with an excludeId returned the second document of the
\* collection, the first being skipped as Cancelled while overlapping
C3_Testigo ==
    /\ last.op = "scan" /\ last.id # 0
    /\ Len(citas) = 2
    /\ last.data = <<citas[2]>>
    /\ ~Activa(citas[1])
    /\ Comparten(last.req.fechaHora, last.req.fechaHora + last.req.duracion.n * MsPorMinuto,
                 citas[1].fechaHora, HastaGuardada(citas[1]))

\* C4: on windows of positive duration the three-case test agrees with
\* NOT (candidateEnd <= existing.start OR candidateStart >= existing.end).
C4_TresCasosEquivale ==
    last.op = "solapa" =>
        LET t == last.data[1]
        IN  t.cruce <=> ~(t.fin <= t.citaInicio \/ t.inicio >= t.citaFinal)

\* C4 witness: a candidate that strictly contains the existing window, which
\* only the third case detects
C4_Testigo ==
    /\ last.op = "solapa"
    /\ last.data[1].inicio < last.data[1].citaInicio
    /\ last.data[1].fin > last.data[1].citaFinal
    /\ last.data[1].cruce

\* C6: the overlap test is symmetric: A as candidate overlaps B as existing
\* exactly when B as candidate overlaps A as existing.
C6_Simetrica ==
    last.op = "solapa" => (last.data[1].cruce <=> last.data[1].inverso)

\* C6 witness: two different windows, one starting inside the other, found
\* to overlap in both directions
C6_Testigo ==
    /\ last.op = "solapa"
    /\ last.data[1].inicio > last.data[1].citaInicio
    /\ last.data[1].fin > last.data[1].citaFinal
    /\ last.data[1].cruce /\ last.data[1].inverso

-----------------------------------------------------------------------------
(* C5, C7, C8, C9, C10: the handlers run one at a time *)

\* the duration a request asks for: the integer part of a number, none for
\* a text; an absent duracion is dflt
Pedida(raw, dflt) ==
    CASE raw.kind = "undefined" -> dflt
      [] raw.kind = "number" -> raw.n
      [] OTHER -> NaN

EnRango(d) == d \in DuracionMin..DuracionMax

\* the step answers a createCita for a known patient
PasoCrear == last'.op = "create" /\ last'.req.pacienteId \in Pacientes

\* the step answers an updateCita for a stored appointment
PasoActualizar == last'.op = "update" /\ findById(citas, last'.id) # <<>>

\* the stored appointments, other than id, that are active, start on the
\* day of inicio and overlap [inicio, inicio + duracion)
Ocupan(col, inicio, duracion, id) ==
    {i \in 1..Len(col) :
        /\ col[i].id # id
        /\ Activa(col[i])
        /\ Dia(Desde(col[i])) = Dia(inicio)
        /\ Comparten(inicio, inicio + duracion * MsPorMinuto, Desde(col[i]), Hasta(col[i]))}

\* the stored active appointments of the day of inicio that end where the
\* window [inicio, inicio + duracion) starts, or start where it ends
Tocan(col, inicio, duracion) ==
    {i \in 1..Len(col) :
        /\ Activa(col[i])
        /\ Dia(Desde(col[i])) = Dia(inicio)
        /\ (Hasta(col[i]) = inicio \/ Desde(col[i]) = inicio + duracion * MsPorMinuto)}

\* the hour and minute of a timestamp
HoraMinuto(t) ==
    LET minutos == (t - Dia(t) * MsPorDia) \div MsPorMinuto
    IN  <<minutos \div 60, minutos % 60>>

\* the collection after the step is the collection before it plus one
\* appointment at its end
AgregaUna == Len(citas') = Len(citas) + 1 /\ SubSeq(citas', 1, Len(citas)) = citas

\* C5: half-open boundary: validarCruceCitas reports no appointment that
\* only touches the candidate window (ends at its start or starts at its
\* end), and a create whose window touches an active appointment of the day
\* and overlaps none succeeds.
C5_BordeSemiabierto ==
    [][(PasoCrear /\ EnRango(Pedida(last'.req.duracion, DuracionDefecto))) =>
          LET f == last'.req.fechaHora
              d == Pedida(last'.req.duracion, DuracionDefecto)
              cruce == validarCruceCitas(citas, f, d, 0)
          IN  /\ cruce # <<>> =>
                    (Hasta(cruce[1]) # f /\ Desde(cruce[1]) # f + d * MsPorMinuto)
              /\ (Tocan(citas, f, d) # {} /\ Ocupan(citas, f, d, 0) = {}
                    /\ Truthy(last'.req.motivo))
                  => (last'.status = 201 /\ AgregaUna)]_vars

\* C5 witness: a create that starts where the only stored appointment ends
\* was answered 201
C5_Testigo ==
    /\ last.op = "create" /\ last.status = 201
    /\ Len(citas) = 2
    /\ Activa(citas[1])
    /\ Dia(Desde(citas[1])) = Dia(Desde(citas[2]))
    /\ Hasta(citas[1]) = Desde(citas[2])

\* C7: create, and update when startAt or durationMinutes is in the
\* request, answer with the duration error exactly when the effective
\* duration is not a number or is below 5 or above 120, so 5 and 120 pass;
\* and every stored appointment has durationMinutes in [5, 120].
C7_DuracionAcotada ==
    [][/\ PasoCrear =>
            ((last'.error = "duracion")
                <=> ~EnRango(Pedida(last'.req.duracion, DuracionDefecto)))
       /\ (PasoActualizar /\ tocaHorario(last'.req)) =>
            ((last'.error = "duracion")
                <=> ~EnRango(Pedida(last'.req.duracion,
                                    findById(citas, last'.id)[1].duracion)))
       /\ (PasoActualizar /\ ~tocaHorario(last'.req)) => last'.error # "duracion"
       /\ \A i \in 1..Len(citas') : EnRango(citas'[i].duracion)]_vars

\* C7 witness: a create with duration 5 and an update to duration 120 were
\* both accepted
C7_Testigo ==
    /\ last.op = "update" /\ last.status = 200
    /\ last.req.duracion = DurNum(DuracionMax)
    /\ \E i, j \in 1..Len(citas) :
          citas[i].duracion = DuracionMin /\ citas[j].duracion = DuracionMax

\* C8: an update that changes only durationMinutes is answered with the
\* conflict error exactly when another active appointment of the same day
\* overlaps the new window; the appointment's own stored window never
\* causes it.
C8_NoChocaConsigoMisma ==
    [][(/\ PasoActualizar
        /\ last'.req.fechaHora = SinFecha
        /\ EnRango(Pedida(last'.req.duracion, NaN))) =>
          LET cita == findById(citas, last'.id)[1]
          IN  (last'.error = "cruce")
                <=> (Ocupan(citas, cita.fechaHora,
                            Pedida(last'.req.duracion, NaN), cita.id) # {})]_vars

\* C8 witness: an active appointment was stretched from 15 to 45 minutes
\* while another active appointment of the day, which the new window does
\* not reach, was stored
C8_Testigo ==
    /\ last.op = "update" /\ last.status = 200
    /\ last.req.fechaHora = SinFecha /\ last.req.duracion = DurNum(45)
    /\ Len(citas) = 2
    /\ Activa(citas[1]) /\ Activa(citas[2])
    /\ Dia(Desde(citas[1])) = Dia(Desde(citas[2]))
    /\ \E i \in 1..2 : citas[i].id = last.id /\ Activa(citas[i])

\* C9: a create for a known patient with a valid duration is answered with
\* the conflict error exactly when validarCruceCitas reports an appointment,
\* which is when an active appointment of the day overlaps the window; the
\* error names that appointment's window and the collection is unchanged;
\* a successful create adds exactly one appointment.
C9_CrearFallaSoloPorCruce ==
    [][(PasoCrear /\ EnRango(Pedida(last'.req.duracion, DuracionDefecto))) =>
          LET f == last'.req.fechaHora
              d == Pedida(last'.req.duracion, DuracionDefecto)
              cruce == validarCruceCitas(citas, f, d, 0)
          IN  /\ (last'.error = "cruce") <=> (cruce # <<>>)
              /\ (cruce # <<>>) <=> (Ocupan(citas, f, d, 0) # {})
              /\ last'.error = "cruce" =>
                    /\ last'.cruce = <<HoraMinuto(Desde(cruce[1])),
                                       HoraMinuto(Hasta(cruce[1]))>>
                    /\ citas' = citas
              /\ last'.status \notin {200, 201} => citas' = citas
              /\ last'.status = 201 => AgregaUna]_vars

\* C9 witness: a create was refused with the window 23:30 - 00:15 of a
\* stored 45-minute appointment
C9_Testigo ==
    /\ last.op = "create" /\ last.error = "cruce"
    /\ last.cruce = <<(<<23, 30>>), (<<0, 15>>)>>
    /\ Len(citas) = 1 /\ citas[1].duracion = 45

\* C10: a create, or an update that carries startAt or durationMinutes,
\* whose window overlaps on its day only Cancelled appointments succeeds.
C10_CanceladaNoBloquea ==
    [][/\ (/\ PasoCrear
           /\ EnRango(Pedida(last'.req.duracion, DuracionDefecto))
           /\ Truthy(last'.req.motivo)
           /\ Ocupan(citas, last'.req.fechaHora,
                     Pedida(last'.req.duracion, DuracionDefecto), 0) = {})
          => (last'.status = 201 /\ AgregaUna)
       /\ (PasoActualizar /\ tocaHorario(last'.req)) =>
            LET cita == findById(citas, last'.id)[1]
                f == IF last'.req.fechaHora # SinFecha
                     THEN last'.req.fechaHora ELSE cita.fechaHora
                d == Pedida(last'.req.duracion, cita.duracion)
            IN  (EnRango(d) /\ Ocupan(citas, f, d, cita.id) = {})
                  => (last'.status = 200
                        /\ findById(citas', cita.id)[1].fechaHora = f
                        /\ findById(citas', cita.id)[1].duracion = d)]_vars

\* C10 witness: a create was answered 201 for a window that overlaps a
\* Cancelled appointment of the same day
C10_Testigo ==
    /\ last.op = "create" /\ last.status = 201
    /\ Len(citas) = 2
    /\ ~Activa(citas[1])
    /\ Dia(Desde(citas[1])) = Dia(Desde(citas[2]))
    /\ Comparten(Desde(citas[1]), Hasta(citas[1]), Desde(citas[2]), Hasta(citas[2]))

-----------------------------------------------------------------------------
(* Rescheduling: create, reschedule and cancel, one request at a time *)

peticionReprogramar(nuevaFechaHora) ==
    [SinPeticion EXCEPT !.nuevaFechaHora = nuevaFechaHora]

NextReprogramar ==
    \/ \E req \in CrearAgenda : createCita(req)
    \/ \E id \in Ids, f \in Inicios : reprogramarCita(id, peticionReprogramar(f))
    \/ \E id \in Ids : cancelarCita(id, SinPeticion)
    \/ entregar

SpecReprogramar == Init /\ [][NextReprogramar]_vars

-----------------------------------------------------------------------------
(* The lifecycle: every handler, one request at a time *)

\* start times of the lifecycle runs: 9:00 on two days
IniciosVida == {Hora(0, 9, 0), Hora(1, 9, 0)}

\* the body of PATCH /citas/:id/cancelar
peticionCancelar(motivo, canceladoPor) ==
    [SinPeticion EXCEPT !.motivo = motivo, !.canceladoPor = canceladoPor]

\* the body of PATCH /citas/:id/atendida
peticionAtendida(notasMedico) ==
    [SinPeticion EXCEPT !.notasMedico = notasMedico]

\* a PUT /citas/:id body that carries no fechaHora and no duracion
peticionEstado(estado, canceladoPor, motivoCancelacion) ==
    [SinPeticion EXCEPT !.estado = estado, !.canceladoPor = canceladoPor,
                        !.motivoCancelacion = motivoCancelacion]

\* create requests: a plain one per start, and one whose body also carries
\* the fields createCita does not read
CrearVida ==
    {peticionCrear("p1", f, DurUndefined, "control") : f \in IniciosVida}
      \cup {[peticionCrear("p1", Hora(0, 9, 0), DurUndefined, "control")
                EXCEPT !.estado = "Atendida", !.canceladoPor = "Paciente",
                       !.motivoCancelacion = "viaje", !.notasMedico = "nota"]}

\* update requests: no status or any status, alone or with the
\* cancellation fields
ActualizarVida ==
    {peticionEstado(e, UNDEFINED, UNDEFINED) : e \in Estados \cup {UNDEFINED}}
      \cup {peticionEstado(e, "Paciente", "viaje") : e \in {UNDEFINED, "Confirmada"}}

NextVida ==
    \/ \E req \in CrearVida : createCita(req)
    \/ \E id \in Ids, req \in ActualizarVida : updateCita(id, req)
    \/ \E id \in Ids : getCitaById(id)
    \/ \E id \in Ids : deleteCita(id)
    \/ \E id \in Ids : confirmarCita(id)
    \/ \E id \in Ids : reprogramarCita(id, peticionReprogramar(Hora(1, 9, 0)))
    \/ \E id \in Ids : cancelarCita(id, SinPeticion)
    \/ \E id \in Ids : marcarAtendida(id, SinPeticion)
    \/ entregar

SpecVida == Init /\ [][NextVida]_vars

-----------------------------------------------------------------------------
(* Attendance: the status handlers and the clock, one request at a time *)

\* createCita while fewer than MaxFichas appointments were created
crearFicha(req) == nextId <= MaxFichas /\ createCita(req)

NextAtendida ==
    \/ crearFicha(peticionCrear("p1", Hora(0, 9, 0), DurUndefined, "control"))
    \/ \E id \in Ids, n \in {UNDEFINED, "nota"} :
          marcarAtendida(id, peticionAtendida(n))
    \/ \E id \in Ids : confirmarCita(id)
    \/ \E id \in Ids : reprogramarCita(id, peticionReprogramar(Hora(1, 9, 0)))
    \/ \E id \in Ids : cancelarCita(id, SinPeticion)
    \/ \E id \in Ids : updateCita(id, peticionEstado("Pendiente", UNDEFINED, UNDEFINED))
    \/ Tic
    \/ entregar

SpecAtendida == Init /\ [][NextAtendida]_vars

-----------------------------------------------------------------------------
(* Cancelling: the bodies of cancel and of update, one request at a time *)

\* motivo as sent to cancel: absent, empty, or a text
MotivosCancelar == {UNDEFINED, "", "viaje"}

\* canceladoPor as sent: absent, empty, a value of the schema enum, or a
\* value outside it
AutoresCancelar == {UNDEFINED, "", "Paciente", "Otro"}

ActualizarCancelar ==
    {peticionEstado(e, c, UNDEFINED) :
        e \in {"Cancelada", "Pendiente"}, c \in {UNDEFINED, "Paciente", "Otro"}}

NextCancelar ==
    \/ createCita(peticionCrear("p1", Hora(0, 9, 0), DurUndefined, "control"))
    \/ \E id \in Ids, m \in MotivosCancelar, c \in AutoresCancelar :
          cancelarCita(id, peticionCancelar(m, c))
    \/ \E id \in Ids, req \in ActualizarCancelar : updateCita(id, req)
    \/ \E id \in Ids : confirmarCita(id)
    \/ entregar

SpecCancelar == Init /\ [][NextCancelar]_vars

-----------------------------------------------------------------------------
(* Updating the status: update bodies and the clock, one request at a time *)

\* update requests: no status, Atendida, Cancelada or Confirmada, with the
\* cancellation fields absent, empty or given
ActualizarEstado ==
    {peticionEstado(e, c[1], c[2]) :
        e \in {UNDEFINED, "Atendida", "Cancelada", "Confirmada"},
        c \in {<<UNDEFINED, UNDEFINED>>, <<"", "">>, <<"Paciente", "viaje">>}}

NextActualizar ==
    \/ crearFicha(peticionCrear("p1", Hora(0, 9, 0), DurUndefined, "control"))
    \/ \E id \in Ids, req \in ActualizarEstado : updateCita(id, req)
    \/ Tic
    \/ entregar

SpecActualizar == Init /\ [][NextActualizar]_vars

-----------------------------------------------------------------------------
(* Scheduling with every status: create, update, confirm, cancel,          *)
(* markAttended and delete, one request at a time                          *)

\* two adjacent quarter hours of one day
IniciosMixto == {Hora(0, 23, 30), Hora(0, 23, 45)}

\* update requests: a status alone, a new start with or without a status,
\* or the duration already stored with or without a status
ActualizarMixto ==
    {peticionActualizar(f, DurUndefined, e) :
        f \in IniciosMixto \cup {SinFecha}, e \in {UNDEFINED, "Pendiente"}}
      \cup {peticionActualizar(SinFecha, DurNum(DuracionDefecto), e) :
                e \in {UNDEFINED, "Pendiente"}}

NextMixto ==
    \/ \E f \in IniciosMixto :
          createCita(peticionCrear("p1", f, DurUndefined, "control"))
    \/ \E id \in Ids, req \in ActualizarMixto : updateCita(id, req)
    \/ \E id \in Ids : confirmarCita(id)
    \/ \E id \in Ids : cancelarCita(id, SinPeticion)
    \/ \E id \in Ids : marcarAtendida(id, SinPeticion)
    \/ \E id \in Ids : deleteCita(id)
    \/ entregar

SpecMixto == Init /\ [][NextMixto]_vars

-----------------------------------------------------------------------------
(* The admin appointments page: loading, filtering and paging the table   *)

ITEMS_PER_PAGE == 5

\* the longest list GET /api/citas answers with
MaxLista == 11

\* an appointment as the page receives it
item(estado, tipoExamen, fechaHora) ==
    [estado |-> estado, tipoExamen |-> tipoExamen, fechaHora |-> fechaHora]

\* n copies of x
repetir(x, n) == [i \in 1..n |-> x]

\* the lists the backend answers with: Pendiente appointments, then
\* Cancelada ones, then possibly an entry without fechaHora
ListasRecibidas ==
    {repetir(item("Pendiente", "Laboratorio", Hora(0, 9, 0)), t[1])
        \o repetir(item("Cancelada", "Laboratorio", Hora(0, 9, 0)), t[2])
        \o repetir(item("Pendiente", "Laboratorio", SinFecha), t[3]) :
        t \in {u \in (0..MaxLista) \X (0..MaxLista) \X (0..1) :
                  u[1] + u[2] + u[3] <= MaxLista}}

\* what fetch("/api/citas") comes to: {success, data}, a bare array, a
\* body of another shape, or a rejected fetch or a status that is not ok
RespuestasCitas ==
    {[forma |-> f, data |-> l] : f \in {"success", "array"}, l \in ListasRecibidas}
      \cup {[forma |-> f, data |-> <<>>] : f \in {"otra", "fallo"}}

\* Array.prototype.filter
filtrar(lista, pasa(_)) == SelectSeq(lista, pasa)

\* Math.ceil(citasFiltradas.length / ITEMS_PER_PAGE)
totalPages == (Len(citasFiltradas) + ITEMS_PER_PAGE - 1) \div ITEMS_PER_PAGE

cargarCitas(result) ==
    /\ IF result.forma = "fallo"
       THEN /\ citasData' = <<>>
            /\ citasFiltradas' = <<>>
            /\ UNCHANGED currentPage
       ELSE /\ citasData' = IF result.forma \in {"success", "array"}
                            THEN filtrar(result.data, LAMBDA c : c.fechaHora # SinFecha)
                            ELSE <<>>
            /\ citasFiltradas' = citasData'
            /\ currentPage' = 1
    /\ UNCHANGED servidor

\* the filter controls hold estado and tipo ("" for none); the date and
\* patient controls are left empty
aplicarFiltros(estado, tipo) ==
    /\ citasFiltradas' =
          filtrar(citasData,
                  LAMBDA c : /\ ~(estado # "" /\ c.estado # estado)
                             /\ ~(tipo # "" /\ c.tipoExamen # tipo))
    /\ currentPage' = 1
    /\ UNCHANGED <<servidor, citasData>>

limpiarFiltros ==
    /\ citasFiltradas' = citasData
    /\ currentPage' = 1
    /\ UNCHANGED <<servidor, citasData>>

\* click on btnPrevPage
btnPrevPage ==
    /\ currentPage > 1
    /\ currentPage' = currentPage - 1
    /\ UNCHANGED <<servidor, citasData, citasFiltradas>>

\* click on btnNextPage
btnNextPage ==
    /\ currentPage < totalPages
    /\ currentPage' = currentPage + 1
    /\ UNCHANGED <<servidor, citasData, citasFiltradas>>

NextPagina ==
    \/ \E result \in RespuestasCitas : cargarCitas(result)
    \/ \E estado \in {"", "Pendiente", "Cancelada"}, tipo \in {"", "Especialidad"} :
          aplicarFiltros(estado, tipo)
    \/ limpiarFiltros
    \/ btnPrevPage
    \/ btnNextPage

SpecPagina == Init /\ [][NextPagina]_vars

-----------------------------------------------------------------------------
(* C11 .. C20: the lifecycle handlers *)

\* an appointment with this id is stored in col
Existe(col, id) == \E i \in 1..Len(col) : col[i].id = id

\* the stored appointment with this id
LaCita(col, id) == col[CHOOSE i \in 1..Len(col) : col[i].id = id]

\* the step answers request op about a stored appointment
PasoSobre(op) == last'.op = op /\ Existe(citas, last'.id)

\* the step replaces the appointment id by doc and touches nothing else
SoloCambia(id, doc) ==
    /\ Len(citas') = Len(citas)
    /\ \A i \in 1..Len(citas) :
          citas'[i] = IF citas[i].id = id THEN doc ELSE citas[i]

\* C11: reschedule on an existing id always succeeds: the appointment gets
\* startAt = newStartAt and status Rescheduled, its duration and every other
\* field stay as they were, no other appointment changes, and no conflict
\* or duration check is run, so it succeeds also onto a window that
\* overlaps another active appointment of that day.
C11_ReprogramarSinValidar ==
    [][PasoSobre("reprogramar") =>
          LET antes == LaCita(citas, last'.id)
          IN  /\ last'.status = 200
              /\ SoloCambia(last'.id,
                            [antes EXCEPT !.fechaHora = last'.req.nuevaFechaHora,
                                          !.estado = "Reprogramada"])]_vars

\* C11 witness: a reschedule was answered 200 and the moved appointment now
\* overlaps another active appointment of its day
C11_Testigo ==
    /\ last.op = "reprogramar" /\ last.status = 200
    /\ Existe(citas, last.id)
    /\ LET c == LaCita(citas, last.id)
       IN  /\ c.fechaHora = last.req.nuevaFechaHora
           /\ Ocupan(citas, c.fechaHora, c.duracion, c.id) # {}

\* the operations that take the id of an appointment
OpsConId == {"update", "confirmar", "reprogramar", "cancelar", "atendida",
             "delete", "get"}

\* C12: an operation that takes an id (update, confirm, reschedule, cancel,
\* markAttended, delete, load by id) and is given an id that resolves to no
\* stored appointment answers not-found (404) and leaves the collection
\* unchanged.
C12_IdDesconocido ==
    [][(last'.op \in OpsConId /\ ~Existe(citas, last'.id)) =>
          (/\ last'.status = 404
           /\ last'.error = "notfound"
           /\ citas' = citas)]_vars

\* C12 witness: with an appointment stored, a request about the id of
\* another one, not stored, was answered 404
C12_Testigo ==
    /\ last.op \in OpsConId
    /\ last.status = 404
    /\ citas # <<>>
    /\ ~Existe(citas, last.id)

\* C13: the appointment a successful create stores has status Pendiente and
\* cancelledBy, cancellationReason, physicianNotes and attendedAt null,
\* whatever the request body carries.
C13_CreadaPendiente ==
    [][Exito("create") =>
          (/\ AgregaUna
           /\ LET c == citas'[Len(citas')]
              IN  /\ c.estado = "Pendiente"
                  /\ c.canceladoPor = NULL
                  /\ c.motivoCancelacion = NULL
                  /\ c.notasMedico = NULL
                  /\ c.fechaAtendida = SinFecha)]_vars

\* C13 witness: a create whose body asked for status Atendida and carried
\* cancellation fields and notes was answered 201, stored as Pendiente
C13_Testigo ==
    /\ last.op = "create" /\ last.status = 201
    /\ last.req.estado = "Atendida"
    /\ last.req.canceladoPor = "Paciente"
    /\ last.req.notasMedico = "nota"
    /\ citas # <<>>
    /\ citas[Len(citas)] = last.data[1]
    /\ citas[Len(citas)].estado = "Pendiente"

\* C14: markAttended on an existing id, whatever the status before, answers
\* with a success and leaves the appointment Atendida with attendedAt a
\* timestamp, the time of this call: an appointment that was already
\* Atendida is not refused and its attendedAt is overwritten.
C14_AtendidaSiempre ==
    [][PasoSobre("atendida") =>
          (/\ last'.status = 200
           /\ Existe(citas', last'.id)
           /\ LET c == LaCita(citas', last'.id)
              IN  /\ c.estado = "Atendida"
                  /\ c.fechaAtendida # SinFecha
                  /\ c.fechaAtendida = reloj)]_vars

\* C14 witness: a markAttended at a later time than the start of the run was
\* answered 200 and the appointment carries the time of that call
C14_Testigo ==
    /\ last.op = "atendida" /\ last.status = 200
    /\ reloj > 0
    /\ Existe(citas, last.id)
    /\ LaCita(citas, last.id).estado = "Atendida"
    /\ LaCita(citas, last.id).fechaAtendida = reloj

\* a body field that was sent with a value that is not empty
Dado(x) == x # UNDEFINED /\ x # NULL /\ x # ""

\* C15 (as stated): cancel on an existing id leaves the appointment
\* Cancelada; a reason and a cancelledBy that the request supplies are
\* stored, and the defaults "Sin especificar" and "Admin" are stored for
\* those it does not supply.
C15_CancelarGuardaLoEnviado ==
    [][PasoSobre("cancelar") =>
          (/\ Existe(citas', last'.id)
           /\ LET c == LaCita(citas', last'.id)
              IN  /\ c.estado = "Cancelada"
                  /\ c.motivoCancelacion =
                        (IF last'.req.motivo # UNDEFINED
                         THEN last'.req.motivo ELSE "Sin especificar")
                  /\ c.canceladoPor =
                        (IF last'.req.canceladoPor # UNDEFINED
                         THEN last'.req.canceladoPor ELSE "Admin"))]_vars

\* C15 (amended): cancel on an existing id leaves the appointment Cancelada;
\* a reason and a cancelledBy supplied with a non-empty value are stored as
\* sent, and the defaults "Sin especificar" and "Admin" are stored for those
\* that are absent or empty.
C15_CancelarGuardaLoNoVacio ==
    [][PasoSobre("cancelar") =>
          (/\ last'.status = 200
           /\ Existe(citas', last'.id)
           /\ LET c == LaCita(citas', last'.id)
              IN  /\ c.estado = "Cancelada"
                  /\ c.motivoCancelacion =
                        (IF Dado(last'.req.motivo)
                         THEN last'.req.motivo ELSE "Sin especificar")
                  /\ c.canceladoPor =
                        (IF Dado(last'.req.canceladoPor)
                         THEN last'.req.canceladoPor ELSE "Admin"))]_vars

\* C15 witness: a cancel that sent an empty reason and cancelledBy Paciente
\* was answered 200; the default reason and Paciente are stored
C15_Testigo ==
    /\ last.op = "cancelar" /\ last.status = 200
    /\ last.req.motivo = "" /\ last.req.canceladoPor = "Paciente"
    /\ Existe(citas, last.id)
    /\ LaCita(citas, last.id).estado = "Cancelada"
    /\ LaCita(citas, last.id).motivoCancelacion = "Sin especificar"
    /\ LaCita(citas, last.id).canceladoPor = "Paciente"

\* the status each status handler leaves
EstadoQueDeja(op) ==
    CASE op = "confirmar" -> "Confirmada"
      [] op = "cancelar" -> "Cancelada"
      [] op = "atendida" -> "Atendida"
      [] op = "reprogramar" -> "Reprogramada"

\* C16: no transition table: confirm on an existing id succeeds from every
\* status, sets Confirmada and changes nothing else; cancel, markAttended
\* and reschedule succeed from every status and leave their status; an
\* update that carries a status (and no startAt or duration) succeeds from
\* every status and leaves the status it carries.
C16_SinTablaDeTransiciones ==
    [][/\ PasoSobre("confirmar") =>
             (/\ last'.status = 200
              /\ SoloCambia(last'.id,
                            [LaCita(citas, last'.id) EXCEPT !.estado = "Confirmada"]))
       /\ (\E op \in {"cancelar", "atendida", "reprogramar"} : PasoSobre(op)) =>
             (/\ last'.status = 200
              /\ Existe(citas', last'.id)
              /\ LaCita(citas', last'.id).estado = EstadoQueDeja(last'.op))
       /\ (/\ PasoSobre("update")
           /\ last'.req.estado \in Estados
           /\ last'.req.fechaHora = SinFecha
           /\ last'.req.duracion.kind = "undefined") =>
             (/\ last'.status = 200
              /\ Existe(citas', last'.id)
              /\ LaCita(citas', last'.id).estado = last'.req.estado)]_vars

\* C16 witness: a confirm was answered 200 for an appointment that had been
\* cancelled and marked attended; it is Confirmada and keeps those fields
C16_Testigo ==
    /\ last.op = "confirmar" /\ last.status = 200
    /\ Existe(citas, last.id)
    /\ LaCita(citas, last.id).estado = "Confirmada"
    /\ LaCita(citas, last.id).canceladoPor = "Admin"
    /\ LaCita(citas, last.id).fechaAtendida # SinFecha

\* C17: a successful update that sets status Atendida stamps attendedAt with
\* the current time; one that sets Cancelada stores cancelledBy and
\* cancellationReason, "Admin" and "Sin especificar" when the request does
\* not give them; one that sets another status or none leaves attendedAt,
\* cancelledBy and cancellationReason as they were.
C17_ActualizarEstado ==
    [][(PasoSobre("update") /\ last'.status = 200) =>
          (/\ Existe(citas', last'.id)
           /\ LET antes == LaCita(citas, last'.id)
                  c == LaCita(citas', last'.id)
                  req == last'.req
              IN  /\ req.estado = "Atendida" => c.fechaAtendida = reloj
                  /\ req.estado = "Cancelada" =>
                        /\ c.canceladoPor =
                              (IF Dado(req.canceladoPor) THEN req.canceladoPor ELSE "Admin")
                        /\ c.motivoCancelacion =
                              (IF Dado(req.motivoCancelacion)
                               THEN req.motivoCancelacion ELSE "Sin especificar")
                  /\ req.estado \notin {"Atendida", "Cancelada"} =>
                        /\ c.fechaAtendida = antes.fechaAtendida
                        /\ c.canceladoPor = antes.canceladoPor
                        /\ c.motivoCancelacion = antes.motivoCancelacion)]_vars

\* C17 witness: an update to Atendida at a later time than the start of the
\* run was answered 200 for an appointment that an earlier update had
\* cancelled without giving the fields; it carries the time of the update
\* and the defaults
C17_Testigo ==
    /\ last.op = "update" /\ last.status = 200
    /\ last.req.estado = "Atendida"
    /\ reloj > 0
    /\ Existe(citas, last.id)
    /\ LaCita(citas, last.id).fechaAtendida = reloj
    /\ LaCita(citas, last.id).canceladoPor = "Admin"
    /\ LaCita(citas, last.id).motivoCancelacion = "Sin especificar"

\* the step answers a cancellation of appointment id: a cancel, or an update
\* that carries status Cancelada
CancelaA(id) ==
    /\ last'.id = id
    /\ \/ last'.op = "cancelar"
       \/ last'.op = "update" /\ last'.req.estado = "Cancelada"

\* the step answers a transition of appointment id to Atendida: a
\* markAttended, or an update that carries status Atendida
AtiendeA(id) ==
    /\ last'.id = id
    /\ \/ last'.op = "atendida"
       \/ last'.op = "update" /\ last'.req.estado = "Atendida"

\* C18: cancelledBy and cancellationReason of a stored appointment change
\* only in a step that cancels it (cancel, or update with status Cancelada)
\* and attendedAt only in a step that takes it to Atendida (markAttended, or
\* update with status Atendida); an appointment enters the collection with
\* the three fields null.  So create, confirm, reschedule and every other
\* update leave them unchanged, and an appointment never cancelled (never
\* attended) has them null.
C18_SoloCancelarYAtender ==
    [][/\ \A i \in 1..Len(citas), j \in 1..Len(citas') :
             citas[i].id = citas'[j].id =>
                /\ (\/ citas'[j].canceladoPor # citas[i].canceladoPor
                    \/ citas'[j].motivoCancelacion # citas[i].motivoCancelacion)
                      => CancelaA(citas[i].id)
                /\ citas'[j].fechaAtendida # citas[i].fechaAtendida
                      => AtiendeA(citas[i].id)
       /\ \A j \in 1..Len(citas') :
             ~Existe(citas, citas'[j].id) =>
                /\ citas'[j].canceladoPor = NULL
                /\ citas'[j].motivoCancelacion = NULL
                /\ citas'[j].fechaAtendida = SinFecha]_vars

\* C18 witness: an update that carried cancelledBy and a reason together
\* with status Confirmada was answered 200 and the appointment, never
\* cancelled or attended, has the three fields null
C18_Testigo ==
    /\ last.op = "update" /\ last.status = 200
    /\ last.req.estado = "Confirmada"
    /\ last.req.canceladoPor = "Paciente"
    /\ Existe(citas, last.id)
    /\ LaCita(citas, last.id).estado = "Confirmada"
    /\ LaCita(citas, last.id).canceladoPor = NULL
    /\ LaCita(citas, last.id).motivoCancelacion = NULL
    /\ LaCita(citas, last.id).fechaAtendida = SinFecha

\* C19 (as stated): cancelledBy of every stored appointment is null or one
\* of Paciente, Admin, Sistema; a cancelledBy outside the enum sent with a
\* cancel or an update is not stored.
C19_CanceladoPorEnEnum ==
    \A i \in 1..Len(citas) :
        citas[i].canceladoPor = NULL \/ citas[i].canceladoPor \in CanceladoPorEnum

\* the end of the calendar day of a timestamp (the next local midnight)
FinDelDia(t) == (Dia(t) + 1) * MsPorDia

\* C20 (as stated): no stored appointment spans midnight: startAt plus
\* durationMinutes is no later than the end of the calendar day of startAt
\* (so that the appointments starting on another day cannot overlap it).
C20_NoCruzaMedianoche ==
    \A i \in 1..Len(citas) : Hasta(citas[i]) <= FinDelDia(Desde(citas[i]))

-----------------------------------------------------------------------------
(* C21 .. C30 *)

\* the ids of the appointments of col that occupy [inicio, inicio + duracion)
IdsQueOcupan(col, inicio, duracion, id) ==
    {col[i].id : i \in Ocupan(col, inicio, duracion, id)}

\* C21: delete on an existing id, whatever the status, answers with a
\* success and removes that appointment and nothing else; the removed
\* appointment occupies no window any more; an id that is not stored is
\* never stored again, so every later operation on it is answered
\* not-found.
C21_BorrarQuita ==
    [][/\ PasoSobre("delete") =>
             (/\ last'.status = 200
              /\ ~Existe(citas', last'.id)
              /\ Len(citas') = Len(citas) - 1
              /\ \A i \in 1..Len(citas) :
                    citas[i].id # last'.id =>
                       \E j \in 1..Len(citas') : citas'[j] = citas[i]
              /\ \A f \in IniciosVida :
                    IdsQueOcupan(citas', f, DuracionDefecto, 0)
                      = IdsQueOcupan(citas, f, DuracionDefecto, last'.id))
       /\ \A id \in 1..(nextId - 1) :
             ~Existe(citas, id) =>
                /\ ~Existe(citas', id)
                /\ (last'.op \in OpsConId /\ last'.id = id) => last'.status = 404]_vars

\* C21 witness: with two appointments stored, a delete of one of them was
\* answered 200: it is gone and the other one is left
C21_Testigo ==
    /\ last.op = "delete" /\ last.status = 200
    /\ ~Existe(citas, last.id)
    /\ last.id < nextId
    /\ Len(citas) = 1

\* the candidate window of a scan overlaps [startAt, startAt + 15 minutes)
\* of the stored appointment c
SolapaQuince(c) ==
    Comparten(last.req.fechaHora,
              last.req.fechaHora + last.req.duracion.n * MsPorMinuto,
              c.fechaHora, c.fechaHora + DuracionDefecto * MsPorMinuto)

\* C22: in a conflict scan a stored active appointment of the candidate's
\* day whose duration is missing counts as lasting 15 minutes: the scan
\* returns a result, reports a conflict when the candidate overlaps
\* [startAt, startAt + 15) of it, and returns it only in that case.
C22_DuracionAusenteQuince ==
    last.op = "scan" =>
        \A i \in 1..Len(citas) :
            (/\ citas[i].duracion = 0
             /\ Activa(citas[i])
             /\ Dia(citas[i].fechaHora) = Dia(last.req.fechaHora)
             /\ citas[i].id # last.id) =>
                /\ SolapaQuince(citas[i]) => last.data # <<>>
                /\ last.data = <<citas[i]>> => SolapaQuince(citas[i])
                /\ Len(citas) = 1 => (last.data # <<>> <=> SolapaQuince(citas[i]))

\* C22 witness: a scan for a window starting ten minutes into the only
\* stored appointment, which has no duration, returned that appointment
C22_Testigo ==
    /\ last.op = "scan"
    /\ Len(citas) = 1
    /\ citas[1].duracion = 0
    /\ citas[1].fechaHora = Hora(0, 23, 30)
    /\ last.req.fechaHora = Hora(0, 23, 40)
    /\ last.data = <<citas[1]>>

\* the step answers an update of a stored appointment that carries neither
\* startAt nor durationMinutes
ActualizaSinHorario ==
    /\ PasoSobre("update")
    /\ last'.req.fechaHora = SinFecha
    /\ last'.req.duracion.kind = "undefined"

\* C23: an update of a stored appointment that carries neither startAt nor
\* durationMinutes is never answered with a duration or a conflict error;
\* with a status of the enum or none it succeeds and the window of the
\* appointment stays as it was, also when it takes a Cancelada appointment
\* to another status while an active appointment occupies its window.
C23_SinHorarioSinValidar ==
    [][ActualizaSinHorario =>
          (/\ last'.error \notin {"duracion", "cruce"}
           /\ last'.req.estado \in Estados \cup {UNDEFINED} =>
                 /\ last'.status = 200
                 /\ Existe(citas', last'.id)
                 /\ Desde(LaCita(citas', last'.id)) = Desde(LaCita(citas, last'.id))
                 /\ Hasta(LaCita(citas', last'.id)) = Hasta(LaCita(citas, last'.id))
                 /\ last'.req.estado \in Estados =>
                       LaCita(citas', last'.id).estado = last'.req.estado)]_vars

\* C23 witness: an update carrying only status Pendiente was answered 200
\* and the appointment, active again, overlaps another active appointment
\* of its day
C23_Testigo ==
    /\ last.op = "update" /\ last.status = 200
    /\ last.req.fechaHora = SinFecha
    /\ last.req.duracion.kind = "undefined"
    /\ last.req.estado = "Pendiente"
    /\ Existe(citas, last.id)
    /\ LET c == LaCita(citas, last.id)
       IN  /\ c.estado = "Pendiente"
           /\ Ocupan(citas, Desde(c), c.duracion, c.id) # {}

\* C24: create answers with the first failure of: patient exists, duration
\* in [5, 120], no conflict; update answers with the first failure of: the
\* id exists, duration in [5, 120], no conflict (the last two when it
\* carries startAt or durationMinutes).
C24_OrdenDeChequeos ==
    [][/\ last'.op = "create" =>
             LET req == last'.req
                 d == Pedida(req.duracion, DuracionDefecto)
             IN  IF req.pacienteId \notin Pacientes
                 THEN last'.error = "paciente" /\ last'.status = 404
                 ELSE IF ~EnRango(d)
                 THEN last'.error = "duracion" /\ last'.status = 400
                 ELSE Ocupan(citas, req.fechaHora, d, 0) # {} =>
                         (last'.error = "cruce" /\ last'.status = 400)
       /\ last'.op = "update" =>
             IF ~Existe(citas, last'.id)
             THEN last'.error = "notfound" /\ last'.status = 404
             ELSE LET req == last'.req
                      cita == LaCita(citas, last'.id)
                      f == IF req.fechaHora # SinFecha THEN req.fechaHora
                           ELSE cita.fechaHora
                      d == Pedida(req.duracion, cita.duracion)
                  IN  (req.fechaHora # SinFecha \/ req.duracion.kind # "undefined") =>
                         IF ~EnRango(d)
                         THEN last'.error = "duracion" /\ last'.status = 400
                         ELSE Ocupan(citas, f, d, cita.id) # {} =>
                                 (last'.error = "cruce" /\ last'.status = 400)]_vars

\* C24 witness: a create for a known patient with a duration of 121 minutes,
\* whose window would overlap a stored active appointment, was answered
\* with the duration error
C24_Testigo ==
    /\ last.op = "create"
    /\ last.error = "duracion"
    /\ last.req.pacienteId \in Pacientes
    /\ last.req.duracion = DurNum(121)
    /\ Ocupan(citas, last.req.fechaHora, 121, 0) # {}

\* C25: an update that is answered with a duration error or a conflict
\* error changes nothing: the appointment keeps every field, also those for
\* which the request carried a value, and no other appointment changes.
C25_RechazoNoEscribe ==
    [][(last'.op = "update" /\ last'.error \in {"duracion", "cruce"}) =>
          citas' = citas]_vars

\* C25 witness: an update carrying a new window, status, patient, reason,
\* exam type and notes was answered with the conflict error and the
\* appointment has none of the values sent
C25_Testigo ==
    /\ last.op = "update" /\ last.error = "cruce"
    /\ last.req.estado = "Confirmada" /\ last.req.motivo = "otro"
    /\ Existe(citas, last.id)
    /\ LET c == LaCita(citas, last.id)
       IN  /\ c.estado = "Pendiente"
           /\ c.motivo = "control"
           /\ c.tipoExamen = "Laboratorio"
           /\ c.pacienteId = "p1"
           /\ c.notasMedico = NULL
           /\ c.fechaHora # last.req.fechaHora

\* C26: markAttended writes physicianNotes on every call: the notes sent,
\* or null when none are sent, whatever notes the appointment held; a
\* successful update that carries no physicianNotes leaves the stored notes
\* as they were.
C26_NotasReemplazadas ==
    [][/\ PasoSobre("atendida") =>
             (/\ Existe(citas', last'.id)
              /\ LaCita(citas', last'.id).notasMedico =
                    (IF Dado(last'.req.notasMedico)
                     THEN last'.req.notasMedico ELSE NULL))
       /\ (PasoSobre("update") /\ last'.status = 200
             /\ last'.req.notasMedico = UNDEFINED) =>
             (/\ Existe(citas', last'.id)
              /\ LaCita(citas', last'.id).notasMedico
                    = LaCita(citas, last'.id).notasMedico)]_vars

\* C26 witness: an update without notes was answered 200 for an appointment
\* that holds the notes of an earlier markAttended
C26_Testigo ==
    /\ last.op = "update" /\ last.status = 200
    /\ last.req.notasMedico = UNDEFINED
    /\ Existe(citas, last.id)
    /\ LaCita(citas, last.id).notasMedico = "nota"
    /\ LaCita(citas, last.id).estado = "Pendiente"

\* slot p saves the document of an update in this step
GuardaActualizar(p) ==
    /\ procs[p].pc = "guardar" /\ procs[p].op = "update"
    /\ procs'[p].pc = "fin"

\* C27: the load, the conflict scan and the write of update are separate
\* steps with no lock and no version check: an update that passed its scan
\* writes the window it set when it saves, whatever was written to the
\* collection since the scan, and is answered with a success (so an update
\* and a create, or two updates, for overlapping windows that all scan
\* before any of them saves are all persisted).
C27_ActualizarNoRevalida ==
    [][\A p \in Procs :
          (GuardaActualizar(p) /\ Existe(citas, procs[p].id)) =>
              LET doc == procs[p].cita[1]
                  antes == procs[p].antes[1]
              IN  /\ procs'[p].resp.status = 200
                  /\ Len(citas') = Len(citas)
                  /\ \A i \in 1..Len(citas) :
                        citas[i].id # procs[p].id => citas'[i] = citas[i]
                  /\ doc.fechaHora # antes.fechaHora =>
                        LaCita(citas', procs[p].id).fechaHora = doc.fechaHora
                  /\ doc.duracion # antes.duracion =>
                        LaCita(citas', procs[p].id).duracion = doc.duracion]_vars

\* C27 witness: one slot has answered 200 to an update that carried a new
\* window and the other 201 to a create, and the updated and the created
\* appointment are active, start on the same day and overlap
C27_Testigo ==
    \E p, q \in Procs :
        /\ procs[p].pc = "fin" /\ procs[p].op = "update"
        /\ procs[p].resp.status = 200 /\ tocaHorario(procs[p].req)
        /\ procs[q].pc = "fin" /\ procs[q].op = "create"
        /\ procs[q].resp.status = 201
        /\ Existe(citas, procs[p].id)
        /\ Existe(citas, procs[q].resp.data[1].id)
        /\ LET a == LaCita(citas, procs[p].id)
               b == LaCita(citas, procs[q].resp.data[1].id)
           IN  /\ a.id # b.id
               /\ Activa(a) /\ Activa(b)
               /\ Dia(Desde(a)) = Dia(Desde(b))
               /\ Comparten(Desde(a), Hasta(a), Desde(b), Hasta(b))

\* the step takes a Cancelada appointment to another status otherwise than
\* by an update that carries startAt or durationMinutes
ReactivaSinHorario ==
    \E i \in 1..Len(citas) :
        /\ ~Activa(citas[i])
        /\ Existe(citas', citas[i].id)
        /\ Activa(LaCita(citas', citas[i].id))
        /\ ~(/\ last'.op = "update"
             /\ (last'.req.fechaHora # SinFecha \/ last'.req.duracion.kind # "undefined"))

\* C28: one request at a time from the empty collection, a step of create,
\* update, confirm, cancel, markAttended or delete keeps the collection
\* free of same-day overlaps between non-cancelled appointments, unless it
\* takes a Cancelada appointment to another status without being an update
\* that carries startAt or durationMinutes; so the runs without such steps
\* and without reschedule never reach an overlap.
C28_SinCrucesRestringido ==
    [][(/\ SinCruces(citas)
        /\ last'.op # "reprogramar"
        /\ ~ReactivaSinHorario) => SinCruces(citas')]_vars

\* C28 witness: an update that asked to take a Cancelada appointment to
\* Pendiente and carried a start was answered with the conflict error, the
\* window being occupied; the appointment is still Cancelada and nothing
\* overlaps
C28_Testigo ==
    /\ last.op = "update" /\ last.error = "cruce"
    /\ last.req.estado = "Pendiente" /\ last.req.fechaHora # SinFecha
    /\ Existe(citas, last.id)
    /\ ~Activa(LaCita(citas, last.id))
    /\ Len(citas) = 2
    /\ SinCruces(citas)

\* C29: the cancellation and attendance stamps are never cleared: an
\* appointment that holds cancelledBy and cancellationReason holds them,
\* non-null, after every step that keeps it stored, unchanged unless the
\* step cancels it; one that holds attendedAt holds an attendedAt after
\* every such step.  So a Confirmada or Pendiente appointment can carry
\* them.
C29_SellosNoSeBorran ==
    [][\A i \in 1..Len(citas) :
          Existe(citas', citas[i].id) =>
             LET antes == citas[i]
                 c == LaCita(citas', citas[i].id)
             IN  /\ (antes.canceladoPor # NULL /\ antes.motivoCancelacion # NULL) =>
                        /\ c.canceladoPor # NULL
                        /\ c.motivoCancelacion # NULL
                        /\ ~CancelaA(antes.id) =>
                              /\ c.canceladoPor = antes.canceladoPor
                              /\ c.motivoCancelacion = antes.motivoCancelacion
                 /\ antes.fechaAtendida # SinFecha =>
                        c.fechaAtendida # SinFecha]_vars

\* C29 witness: an update to Pendiente was answered 200 on an appointment
\* that still carries its cancellation data and its attendance time
C29_Testigo ==
    /\ last.op = "update" /\ last.status = 200
    /\ last.req.estado = "Pendiente"
    /\ Existe(citas, last.id)
    /\ LaCita(citas, last.id).estado = "Pendiente"
    /\ LaCita(citas, last.id).canceladoPor # NULL
    /\ LaCita(citas, last.id).motivoCancelacion # NULL
    /\ LaCita(citas, last.id).fechaAtendida # SinFecha

\* the larger of two numbers
Max(a, b) == IF a >= b THEN a ELSE b

\* C30 (as stated): in the admin appointments page, after any sequence of
\* load, filter, clear-filter, previous-page and next-page events,
\* currentPage is at least 1 and at most
\* max(1, ceil(citasFiltradas.length / 5)).
C30_PaginaEnRango ==
    /\ currentPage >= 1
    /\ currentPage <= Max(1, totalPages)

====
